---- MODULE Spec2Model ----
(***************************************************************************)
(* scix-client: the rate limiter (src/rate_limit.rs), the HTTP transport   *)
(* methods of SciXClient (src/client.rs) and the MCP stdio server loop     *)
(* (src/mcp.rs), as state machines.                                        *)
(*                                                                         *)
(* Time is discrete.  One tick is 1/TicksPerSecond of a second; Instant    *)
(* values are tick counts since the start of the run, and the wall clock   *)
(* (SystemTime) advances with the same ticks.  A sleep never ends before   *)
(* its deadline and may end any time after it.                             *)
(***************************************************************************)
EXTENDS Integers, Sequences, FiniteSets, TLC

\* ------------------------------------------------------------------ bounds
MaxTasks == 3
MaxCalls == 3
MaxTime == 3
MaxResetSecs == 1
MaxRequests == 2
MaxLines == 2

\* ------------------------------------------------------- time and ceilings
\* Resolution of the model's clock: ticks in one second.
TicksPerSecond == 2

\* Option<T>::None for the Option<Instant> / Option<u32> fields and headers.
None == -1

\* Values of max_per_second the limiter is constructed with.
Ceilings == {1, 2}

Tasks == 1..MaxTasks

\* A header that the response does not carry.
Absent == "absent"

\* Values of the x-ratelimit-remaining header: absent, not a number, 0, or
\* some quota left.
RemainingHeaders == {Absent, "n/a", "0", "1"}

\* Values of the x-ratelimit-reset header: absent, not a number, or Unix
\* seconds.
ResetHeaders == {Absent, "soon"} \cup {ToString(n) : n \in 0..MaxResetSecs}

\* No headers handed to update_from_headers on its own.
NoHeaders == [remaining |-> Absent, reset |-> Absent]

\* v.to_str().ok().and_then(|v| v.parse::<u32 / u64>().ok()) of a header:
\* the number a decimal header value spells, None for anything else.
ParseUInt(h) ==
    CASE h = "0" -> 0 [] h = "1" -> 1 [] h = "2" -> 2 [] h = "3" -> 3 [] h = "4" -> 4
      [] h = "5" -> 5 [] h = "6" -> 6 [] h = "7" -> 7 [] h = "8" -> 8 [] h = "9" -> 9
      [] OTHER -> None

VARIABLES
    now,               \* Instant::now(), in ticks
    max_per_second,    \* RateLimiterInner.max_per_second
    last_request,      \* RateLimiterInner.last_request
    server_remaining,  \* RateLimiterInner.server_remaining
    server_reset,      \* RateLimiterInner.server_reset
    mutex,             \* holder of the tokio Mutex around RateLimiterInner, 0 when free
    pc,                \* per task: where its acquire() stands
    wake,              \* per task: deadline of the tokio::time::sleep it is in
    calls,             \* per task: acquire() calls issued so far
    quotaAtCall,       \* per task: the server window its latest bare acquire() was issued
                       \* under, "open" again once update_from_headers has run since
    firstAdmit,        \* time the first bare acquire() returned, None before
    op,                \* per task: "acquire" for a bare acquire(), else the transport method it runs
    result,            \* per task: Result<String> its latest transport method returned
    events,            \* per task: what its current or latest transport method has done, in order
    hr_in,             \* the response handed to handle_response
    hr_out,            \* what handle_response returned for it
    hdr_in,            \* the headers handed to update_from_headers on its own
    hdr_out,           \* "returned" or "panicked" once that call has ended
    tool_in,           \* the params handed to handle_tool_call on its own
    tool_out,          \* how far the tool got with them: ended, or at its outbound call
    loop,              \* run_server: "idle" at the head of its for loop, "handling" inside
                       \* handle_tool_call, "closed" / "stdin_error" / "stdout_error" once returned
    nRead,             \* lines taken from stdin so far
    cur,               \* the line read last
    written,           \* the response lines written to stdout for cur, in order
    gateway,           \* what the gateway operation awaited by the tool serving cur
                       \* returned, NoResult while none has
    log                \* stdout as a whole: for each response line written, the number of
                       \* the input line it answers

limiterVars == <<max_per_second, last_request, server_remaining, server_reset, mutex>>
taskVars == <<pc, wake, calls, quotaAtCall>>
transportVars == <<op, result, events>>
classifyVars == <<hr_in, hr_out>>
validateVars == <<tool_in, tool_out>>
headerVars == <<hdr_in, hdr_out>>
serverVars == <<loop, nRead, cur, written, gateway, log>>
outsideTransport == <<classifyVars, validateVars, headerVars, serverVars>>
outsideLimiter == <<transportVars, classifyVars, validateVars, headerVars, serverVars>>
vars == <<now, limiterVars, taskVars, firstAdmit, transportVars, classifyVars, validateVars,
          headerVars, serverVars>>

\* ------------------------------------------------------------ rate_limit.rs
\* Variant: the ceiling itself taken as the interval, the 1.0 / dropped.
MinIntervalNotInverted(rate) == rate

\* Duration::from_secs_f64(1.0 / max_per_second), in ticks.
MinInterval(rate) == TicksPerSecond \div rate

\* SystemTime::now().duration_since(UNIX_EPOCH).as_secs(): whole seconds.
NowUnix == now \div TicksPerSecond

RECURSIVE SumCalls(_)
SumCalls(n) == IF n = 0 THEN 0 ELSE calls[n] + SumCalls(n - 1)

\* acquire() calls issued so far by all tasks.
TotalCalls == SumCalls(MaxTasks)

\* Tasks inside acquire().
InFlight == {t \in Tasks : pc[t] \in {"lock_wait", "locked", "sleep_server", "sleep_local"}}

\* acquire() calls that have returned.
nAdmitted == TotalCalls - Cardinality(InFlight)

\* Tasks that have called acquire() at least once; tasks are named in the
\* order of their first call.
Callers == {t \in Tasks : calls[t] > 0}

\* RateLimiter::new: no request yet, nothing observed from the server.
NewLimiter(rate) ==
    /\ max_per_second = rate
    /\ last_request = None
    /\ server_remaining = None
    /\ server_reset = None
    /\ mutex = 0

\* Variant: the reset instant itself still counts as inside the window.
ServerWindowClosedInclusive ==
    /\ server_remaining # None
    /\ server_reset # None
    /\ server_remaining = 0
    /\ now <= server_reset

\* acquire(), the server-window test: both fields are Some, the remaining
\* count is 0 and the reset instant is still ahead.
ServerWindowClosed ==
    /\ server_remaining # None
    /\ server_reset # None
    /\ server_remaining = 0
    /\ now < server_reset

\* Variant: the wait cut down to whole seconds.
ServerWaitWholeSeconds == ((server_reset - now) \div TicksPerSecond) * TicksPerSecond

\* acquire(): let wait = reset - Instant::now().
ServerWait == server_reset - now

\* Variant: a limiter without a last request measured from the start of the
\* run instead of skipping the test.
NeedsLocalWaitFromStart ==
    now - (IF last_request = None THEN 0 ELSE last_request) < MinInterval(max_per_second)

\* acquire(), the local spacing test: a last request exists and less than
\* the minimum interval has elapsed since it.
NeedsLocalWait ==
    /\ last_request # None
    /\ now - last_request < MinInterval(max_per_second)

\* acquire(): let wait = min_interval - elapsed.
LocalWait == MinInterval(max_per_second) - (now - last_request)

\* What a call finds stored when it is issued: "closed" when the remaining
\* count is 0 and the reset instant is ahead, "expired" when the count is 0
\* and the reset instant is reached, "open" otherwise.
QuotaNow ==
    IF server_remaining = 0 /\ server_reset # None
    THEN IF now < server_reset THEN "closed" ELSE "expired"
    ELSE "open"

\* acquire(): inner.last_request = Some(Instant::now()); the guard is
\* dropped as the function returns.
Commit(t) ==
    /\ last_request' = now
    /\ mutex' = 0
    /\ pc' = [pc EXCEPT ![t] = IF op[t] = "acquire" THEN "idle" ELSE "send"]
    /\ wake' = [wake EXCEPT ![t] = 0]
    /\ firstAdmit' = IF firstAdmit = None /\ op[t] = "acquire" THEN now ELSE firstAdmit
    /\ UNCHANGED <<max_per_second, server_remaining, server_reset, calls, quotaAtCall>>

\* Variant: the guard is kept across the local-spacing sleep.
LocalCheckHoldingGuard(t) ==
    IF NeedsLocalWait
    THEN /\ wake' = [wake EXCEPT ![t] = now + LocalWait]
         /\ mutex' = mutex
         /\ pc' = [pc EXCEPT ![t] = "sleep_local"]
         /\ UNCHANGED <<max_per_second, last_request, server_remaining, server_reset,
                        calls, quotaAtCall, firstAdmit>>
    ELSE Commit(t)

\* Duration::from_secs_f64(1.0 / max_per_second) panics on a value that is
\* negative or not finite: 1.0 / 0.0 is infinite and 1.0 / a negative
\* ceiling is negative. It is evaluated only when a last request exists.
MinIntervalPanics ==
    /\ last_request # None
    /\ max_per_second <= 0

\* acquire(), "Enforce local rate limit", with the guard held: too early
\* after the last request the guard is dropped and the task sleeps for the
\* remainder; otherwise the request is marked as sent. A panic in the
\* computation of the minimum interval ends the call and drops the guard.
LocalCheck(t) ==
    IF MinIntervalPanics
    THEN /\ pc' = [pc EXCEPT ![t] = "panicked"]
         /\ mutex' = 0
         /\ UNCHANGED <<max_per_second, last_request, server_remaining, server_reset,
                        wake, calls, quotaAtCall, firstAdmit>>
    ELSE IF NeedsLocalWait
    THEN /\ wake' = [wake EXCEPT ![t] = now + LocalWait]
         /\ mutex' = 0
         /\ pc' = [pc EXCEPT ![t] = "sleep_local"]
         /\ UNCHANGED <<max_per_second, last_request, server_remaining, server_reset,
                        calls, quotaAtCall, firstAdmit>>
    ELSE Commit(t)

\* Entry of acquire(): self.inner.lock().await takes the mutex at once when
\* it is free and queues the task otherwise.
Enter(t) ==
    /\ calls' = [calls EXCEPT ![t] = @ + 1]
    /\ quotaAtCall' = [quotaAtCall EXCEPT ![t] = IF op[t] = "acquire" THEN QuotaNow ELSE @]
    /\ IF mutex = 0
       THEN mutex' = t /\ pc' = [pc EXCEPT ![t] = "locked"]
       ELSE mutex' = mutex /\ pc' = [pc EXCEPT ![t] = "lock_wait"]
    /\ UNCHANGED <<now, max_per_second, last_request, server_remaining, server_reset,
                   wake, firstAdmit>>

\* A task calls acquire() on the shared limiter.
Call(t) ==
    /\ pc[t] = "idle"
    /\ \A u \in Tasks : u < t => calls[u] > 0
    /\ TotalCalls < MaxCalls
    /\ Enter(t)
    /\ UNCHANGED outsideLimiter

\* The queued lock().await of a call completes once the mutex is free.
Lock(t) ==
    /\ pc[t] = "lock_wait"
    /\ mutex = 0
    /\ mutex' = t
    /\ pc' = [pc EXCEPT ![t] = "locked"]
    /\ UNCHANGED <<now, max_per_second, last_request, server_remaining, server_reset,
                   wake, calls, quotaAtCall, firstAdmit>>
    /\ UNCHANGED outsideLimiter

\* acquire() with the guard held, "Check server-reported limits first":
\* with the window closed the guard is dropped and the task sleeps for the
\* wait; otherwise it goes straight on to the local check.
ServerCheck(t) ==
    /\ pc[t] = "locked"
    /\ mutex = t
    /\ IF ServerWindowClosed
       THEN /\ wake' = [wake EXCEPT ![t] = now + ServerWait]
            /\ mutex' = 0
            /\ pc' = [pc EXCEPT ![t] = "sleep_server"]
            /\ UNCHANGED <<max_per_second, last_request, server_remaining, server_reset,
                           calls, quotaAtCall, firstAdmit>>
       ELSE LocalCheck(t)
    /\ UNCHANGED <<now, outsideLimiter>>

\* Variant: after the server-window sleep the request is marked as sent at
\* once, the server wait standing in for the local spacing.
WakeServerCommits(t) ==
    /\ pc[t] = "sleep_server"
    /\ now >= wake[t]
    /\ mutex = 0
    /\ Commit(t)
    /\ UNCHANGED <<now, outsideLimiter>>

\* The server-window sleep is over, inner = self.inner.lock().await has the
\* mutex again, and the local check follows.
WakeServer(t) ==
    /\ pc[t] = "sleep_server"
    /\ now >= wake[t]
    /\ mutex = 0
    /\ LocalCheck(t)
    /\ UNCHANGED <<now, outsideLimiter>>

\* Variant: after the local-spacing sleep the spacing is tested again.
WakeLocalRechecks(t) ==
    /\ pc[t] = "sleep_local"
    /\ now >= wake[t]
    /\ mutex = 0
    /\ LocalCheck(t)
    /\ UNCHANGED <<now, outsideLimiter>>

\* The local-spacing sleep is over, the mutex is taken again and the
\* request is marked as sent, with no further test.
WakeLocal(t) ==
    /\ pc[t] = "sleep_local"
    /\ now >= wake[t]
    /\ mutex = 0
    /\ Commit(t)
    /\ UNCHANGED <<now, outsideLimiter>>

\* The seconds by which an Instant can be moved forward before
\* Instant + Duration overflows (about i64::MAX on Linux), and u64::MAX, the
\* largest value parse::<u64>() accepts, both on the scale of the model.
InstantMaxSecs == 1000
U64MaxSecs == 2 * InstantMaxSecs + 1
U64MaxHeader == "18446744073709551615"

\* parse::<u32>() and parse::<u64>() of a header value: u64::MAX does not
\* fit a u32.
ParseU32(h) == ParseUInt(h)
ParseU64(h) == IF h = U64MaxHeader THEN U64MaxSecs ELSE ParseUInt(h)

\* update_from_headers: the reset header parses and lies after the wall
\* clock's whole second.
ResetAhead(reset) == ParseU64(reset) # None /\ ParseU64(reset) > NowUnix

\* Instant::now() + wait panics when the sum cannot be represented.
InstantAddOverflows(wait) == now + wait * TicksPerSecond > InstantMaxSecs * TicksPerSecond

\* update_from_headers with a reset header so far ahead that
\* Instant::now() + wait overflows: the remaining count has been stored by
\* then, the addition panics and the guard is dropped in the unwinding.
update_from_headers_panics(remaining, reset) ==
    /\ mutex = 0
    /\ ResetAhead(reset)
    /\ InstantAddOverflows(ParseU64(reset) - NowUnix)
    /\ server_remaining' = IF ParseU32(remaining) # None
                           THEN ParseU32(remaining)
                           ELSE server_remaining
    /\ quotaAtCall' = [t \in Tasks |-> "open"]
    /\ UNCHANGED <<now, max_per_second, last_request, server_reset, mutex, wake, calls,
                   firstAdmit>>

\* Variant: a header that is absent or does not parse clears the field.
update_from_headers_overwriting(remaining, reset) ==
    /\ mutex = 0
    /\ ~(ResetAhead(reset) /\ InstantAddOverflows(ParseU64(reset) - NowUnix))
    /\ server_remaining' = ParseU32(remaining)
    /\ server_reset' = IF ResetAhead(reset)
                       THEN now + (ParseU64(reset) - NowUnix) * TicksPerSecond
                       ELSE None
    /\ quotaAtCall' = [t \in Tasks |-> "open"]
    /\ UNCHANGED <<now, max_per_second, last_request, mutex, wake, calls, firstAdmit>>

\* Variant: a reset timestamp equal to the wall clock's second is stored
\* too.
update_from_headers_inclusive(remaining, reset) ==
    /\ mutex = 0
    /\ ~(ResetAhead(reset) /\ InstantAddOverflows(ParseU64(reset) - NowUnix))
    /\ server_remaining' = IF ParseU32(remaining) # None
                           THEN ParseU32(remaining)
                           ELSE server_remaining
    /\ server_reset' = IF ParseU64(reset) # None /\ ParseU64(reset) >= NowUnix
                       THEN now + (ParseU64(reset) - NowUnix) * TicksPerSecond
                       ELSE server_reset
    /\ quotaAtCall' = [t \in Tasks |-> "open"]
    /\ UNCHANGED <<now, max_per_second, last_request, mutex, wake, calls, firstAdmit>>

\* update_from_headers, under the mutex: each field is stored only from a
\* header that is present and parses; the reset header (Unix seconds) is
\* stored only when it lies after the wall clock's whole second, as
\* now + the difference.
update_from_headers(remaining, reset) ==
    /\ mutex = 0
    /\ ~(ResetAhead(reset) /\ InstantAddOverflows(ParseU64(reset) - NowUnix))
    /\ server_remaining' = IF ParseU32(remaining) # None
                           THEN ParseU32(remaining)
                           ELSE server_remaining
    /\ server_reset' = IF ResetAhead(reset)
                       THEN now + (ParseU64(reset) - NowUnix) * TicksPerSecond
                       ELSE server_reset
    /\ quotaAtCall' = [t \in Tasks |-> "open"]
    /\ UNCHANGED <<now, max_per_second, last_request, mutex, wake, calls, firstAdmit>>

\* A response reaches some caller, which hands its headers to the limiter.
Observe ==
    /\ \E remaining \in RemainingHeaders, reset \in ResetHeaders :
           update_from_headers(remaining, reset)
    /\ UNCHANGED <<pc, outsideLimiter>>

\* Time passes.
Tick ==
    /\ now < MaxTime
    /\ now' = now + 1
    /\ UNCHANGED <<limiterVars, taskVars, firstAdmit, outsideLimiter>>

\* Nothing handed to handle_response, nothing returned yet.
NoResponse == [status |-> None, retry_after |-> Absent, body |-> [ok |-> FALSE, text |-> ""]]
NoResult == [kind |-> "none", status |-> None, text |-> "", retry_after |-> None]

\* No params handed to handle_tool_call on its own, no tool started.
NoCall == [name |-> "none"]
NotStarted == [done |-> FALSE, outcome |-> NoResult, method |-> "unset"]

InitLimiterOf(rates) ==
    /\ now = 0
    /\ \E rate \in rates : NewLimiter(rate)
    /\ pc = [t \in Tasks |-> "idle"]
    /\ wake = [t \in Tasks |-> 0]
    /\ calls = [t \in Tasks |-> 0]
    /\ quotaAtCall = [t \in Tasks |-> "open"]
    /\ firstAdmit = None
    /\ result = [t \in Tasks |-> NoResult]
    /\ events = [t \in Tasks |-> <<>>]
    /\ loop = "idle"
    /\ nRead = 0
    /\ cur = ""
    /\ written = <<>>
    /\ gateway = NoResult
    /\ log = <<>>

\* The state after construction with a ceiling the other specifications
\* use.
InitLimiter == InitLimiterOf(Ceilings)

\* Tasks that call acquire() and update_from_headers on a new limiter.
Init ==
    /\ InitLimiter
    /\ op = [t \in Tasks |-> "acquire"]
    /\ hr_in = NoResponse
    /\ hr_out = NoResult
    /\ tool_in = NoCall
    /\ tool_out = NotStarted
    /\ hdr_in = NoHeaders
    /\ hdr_out = "none"

Next ==
    \/ Tick
    \/ Observe
    \/ \E t \in Tasks : Call(t)
    \/ \E t \in Tasks : Lock(t)
    \/ \E t \in Tasks : ServerCheck(t)
    \/ \E t \in Tasks : WakeServer(t)
    \/ \E t \in Tasks : WakeLocal(t)

Spec == Init /\ [][Next]_vars

\* The ceilings the constructors accept: RateLimiter::new and
\* SciXClient::with_rate_limit take any f64, SciXClient::new passes 5.0
\* (whose interval of 0.2 s is less than one tick).
DefaultCeiling == 5
PublicCeilings == {-1, 0} \cup Ceilings \cup {DefaultCeiling}

\* Tasks that call acquire() and update_from_headers on a limiter built
\* with any ceiling a constructor accepts.
InitCeiling ==
    /\ InitLimiterOf(PublicCeilings)
    /\ op = [t \in Tasks |-> "acquire"]
    /\ hr_in = NoResponse
    /\ hr_out = NoResult
    /\ tool_in = NoCall
    /\ tool_out = NotStarted
    /\ hdr_in = NoHeaders
    /\ hdr_out = "none"

SpecCeiling == InitCeiling /\ [][Next]_vars

\* update_from_headers applied once to a limiter in any state, with any
\* pair of headers: absent, not a number, negative, too large for the
\* type, or a number.
RemainingValues == RemainingHeaders \cup {"-1", "4294967296", U64MaxHeader}
ResetValues == ResetHeaders \cup {"-1", U64MaxHeader}

InitHeaders ==
    /\ now \in 0..MaxTime
    /\ max_per_second \in Ceilings
    /\ last_request \in {None} \cup 0..now
    /\ server_remaining \in {None, 0, 1}
    /\ server_reset \in {None} \cup 1..(MaxTime + MaxResetSecs * TicksPerSecond)
    /\ mutex = 0
    /\ pc = [t \in Tasks |-> "idle"]
    /\ wake = [t \in Tasks |-> 0]
    /\ calls = [t \in Tasks |-> 0]
    /\ quotaAtCall = [t \in Tasks |-> "open"]
    /\ firstAdmit = None
    /\ op = [t \in Tasks |-> "none"]
    /\ result = [t \in Tasks |-> NoResult]
    /\ events = [t \in Tasks |-> <<>>]
    /\ loop = "idle"
    /\ nRead = 0
    /\ cur = ""
    /\ written = <<>>
    /\ gateway = NoResult
    /\ log = <<>>
    /\ hr_in = NoResponse
    /\ hr_out = NoResult
    /\ tool_in = NoCall
    /\ tool_out = NotStarted
    /\ hdr_in \in [remaining : RemainingValues, reset : ResetValues]
    /\ hdr_out = "pending"

HeadersReturn ==
    /\ hdr_out = "pending"
    /\ update_from_headers(hdr_in.remaining, hdr_in.reset)
    /\ hdr_out' = "returned"
    /\ UNCHANGED <<pc, transportVars, classifyVars, validateVars, hdr_in, serverVars>>

HeadersPanic ==
    /\ hdr_out = "pending"
    /\ update_from_headers_panics(hdr_in.remaining, hdr_in.reset)
    /\ hdr_out' = "panicked"
    /\ UNCHANGED <<pc, transportVars, classifyVars, validateVars, hdr_in, serverVars>>

NextHeaders == HeadersReturn \/ HeadersPanic

SpecHeaders == InitHeaders /\ [][NextHeaders]_vars

\* ---------------------------------------------------------------- client.rs
\* The transport methods of SciXClient.
Methods == {"get", "post_json", "post_text", "put_json", "delete"}

\* response.status().as_u16(): the range bounds of the match, its three
\* single arms, and statuses on either side of them.
Statuses == {199, 200, 299, 300, 401, 404, 429, 500}

\* Values of the retry-after header: absent, delay seconds, or an HTTP date.
RetryAfterHeaders == {Absent, "7", "Wed, 21 Oct 2026 07:28:00 GMT"}

\* What response.text().await yields: the body text, or an error when the
\* body cannot be read to its end (text is then what the server sent).
SearchBody == "{\"response\":{\"docs\":[]}}"
PaperBody == "{\"response\":{\"docs\":[{\"bibcode\":\"2020A\",\"title\":[\"T\"]}]}}"
BodyReads == [ok : BOOLEAN, text : {"", "oops", SearchBody, PaperBody}]
\* The body of an export response.
ExportBody == "{\"export\":\"@ARTICLE{2020A}\"}"

\* Result<String>: Ok(text) and the variants of SciXError the transport
\* produces.
Ok(text) == [kind |-> "Ok", status |-> None, text |-> text, retry_after |-> None]
ErrHttp == [kind |-> "Http", status |-> None, text |-> "", retry_after |-> None]
ErrAuthRequired == [kind |-> "AuthRequired", status |-> None, text |-> "", retry_after |-> None]
ErrNotFound(message) ==
    [kind |-> "NotFound", status |-> None, text |-> message, retry_after |-> None]
ErrRateLimited(retry_after) ==
    [kind |-> "RateLimited", status |-> None, text |-> "", retry_after |-> retry_after]
ErrApi(status, message) ==
    [kind |-> "Api", status |-> status, text |-> message, retry_after |-> None]

\* Variant: the success range stops short of 299.
handle_response_exclusive_range(status, retry_after, body) ==
    CASE status \in 200..298 -> IF body.ok THEN Ok(body.text) ELSE ErrHttp
      [] status = 401 -> ErrAuthRequired
      [] status = 404 -> ErrNotFound("Resource not found")
      [] status = 429 -> ErrRateLimited(ParseUInt(retry_after))
      [] OTHER -> ErrApi(status, IF body.ok THEN body.text ELSE "")

\* handle_response: the match on the status.  In the 2xx arm a failed
\* text() is returned as the Http error (the ? operator); in the last arm a
\* failed text() gives the empty message (unwrap_or_default).
handle_response(status, retry_after, body) ==
    CASE status \in 200..299 -> IF body.ok THEN Ok(body.text) ELSE ErrHttp
      [] status = 401 -> ErrAuthRequired
      [] status = 404 -> ErrNotFound("Resource not found")
      [] status = 429 -> ErrRateLimited(ParseUInt(retry_after))
      [] OTHER -> ErrApi(status, IF body.ok THEN body.text ELSE "")

\* Every outcome handle_response has: over all statuses, retry-after headers
\* and outcomes of reading the body.
HandledOutcomes ==
    {handle_response(status, retry_after, body) :
        status \in Statuses, retry_after \in RetryAfterHeaders, body \in BodyReads}

\* What a method returns for a response it received: handle_response of the
\* response.  The status, the retry-after header and the body of that
\* response are drawn where the caller looks at the outcome, which is then
\* one of HandledOutcomes.
Handled == [kind |-> "Handled", status |-> None, text |-> "", retry_after |-> None]

\* get / post_json / post_text / put_json / delete: the method starts with
\* self.rate_limiter.acquire().await.
Issue(t, m) ==
    /\ op' = [op EXCEPT ![t] = m]
    /\ events' = [events EXCEPT ![t] = <<"acquire">>]
    /\ result' = [result EXCEPT ![t] = NoResult]
    /\ Enter(t)

\* A task calls one of the transport methods.
Request(t, m) ==
    /\ pc[t] = "idle"
    /\ \A u \in Tasks : u < t => calls[u] > 0
    /\ TotalCalls < MaxRequests
    /\ Issue(t, m)
    /\ UNCHANGED outsideTransport

\* The method returns its outcome to the caller.
Return(t, outcome) ==
    /\ result' = [result EXCEPT ![t] = outcome]
    /\ op' = [op EXCEPT ![t] = "none"]
    /\ pc' = [pc EXCEPT ![t] = "idle"]

\* Variant: the response goes straight to handle_response, the limiter is
\* not told about its headers.
RespondWithoutUpdate(t) ==
    /\ pc[t] = "send"
    /\ \/ /\ Return(t, ErrHttp)
          /\ events' = [events EXCEPT ![t] = @ \o <<"send_failed">>]
       \/ /\ Return(t, Handled)
          /\ events' = [events EXCEPT ![t] = @ \o <<"send", "classify">>]
    /\ UNCHANGED <<now, limiterVars, wake, calls, quotaAtCall, firstAdmit, outsideTransport>>

\* Variant: the headers of a response that never came are handed to the
\* limiter before the failure is returned.
SendFailsAfterUpdate(t) ==
    /\ pc[t] = "send"
    /\ \E remaining \in RemainingHeaders, reset \in ResetHeaders :
           update_from_headers(remaining, reset)
    /\ Return(t, ErrHttp)
    /\ events' = [events EXCEPT ![t] = @ \o <<"send_failed">>]
    /\ UNCHANGED outsideTransport

\* .send().await? ends with an error, which the method returns at once as
\* SciXError::Http.
SendFails(t) ==
    /\ pc[t] = "send"
    /\ Return(t, ErrHttp)
    /\ events' = [events EXCEPT ![t] = @ \o <<"send_failed">>]
    /\ UNCHANGED <<now, limiterVars, wake, calls, quotaAtCall, firstAdmit, outsideTransport>>

\* .send().await? ends with a response: its rate-limit headers go to
\* self.rate_limiter.update_from_headers(..).await, then
\* the method returns handle_response(response).await.
Respond(t) ==
    /\ pc[t] = "send"
    /\ \E remaining \in RemainingHeaders, reset \in ResetHeaders :
           update_from_headers(remaining, reset)
    /\ Return(t, Handled)
    /\ events' = [events EXCEPT ![t] = @ \o <<"send", "update", "classify">>]
    /\ UNCHANGED outsideTransport

\* Tasks that call the transport methods of one client.
InitTransport ==
    /\ InitLimiter
    /\ op = [t \in Tasks |-> "none"]
    /\ hr_in = NoResponse
    /\ hr_out = NoResult
    /\ tool_in = NoCall
    /\ tool_out = NotStarted
    /\ hdr_in = NoHeaders
    /\ hdr_out = "none"

NextTransport ==
    \/ Tick
    \/ \E t \in Tasks, m \in Methods : Request(t, m)
    \/ \E t \in Tasks : Lock(t)
    \/ \E t \in Tasks : ServerCheck(t)
    \/ \E t \in Tasks : WakeServer(t)
    \/ \E t \in Tasks : WakeLocal(t)
    \/ \E t \in Tasks : SendFails(t)
    \/ \E t \in Tasks : Respond(t)

SpecTransport == InitTransport /\ [][NextTransport]_vars

\* handle_response applied to one response: any status, any retry-after
\* header, any outcome of reading the body.
InitClassify ==
    /\ InitLimiter
    /\ op = [t \in Tasks |-> "none"]
    /\ hr_in \in [status : Statuses, retry_after : RetryAfterHeaders, body : BodyReads]
    /\ hr_out = NoResult
    /\ tool_in = NoCall
    /\ tool_out = NotStarted
    /\ hdr_in = NoHeaders
    /\ hdr_out = "none"

Classify ==
    /\ hr_out = NoResult
    /\ hr_out' = handle_response(hr_in.status, hr_in.retry_after, hr_in.body)
    /\ UNCHANGED <<now, limiterVars, taskVars, firstAdmit, transportVars, hr_in, validateVars,
                   headerVars, serverVars>>

SpecClassify == InitClassify /\ [][Classify]_vars

\* ------------------------------------------------------------------- mcp.rs
\* serde_json::Value members as the server looks at them: a member that is
\* missing, null, a string, a number, a boolean, an array or an object (the
\* last four by their JSON text).
JAbsent == [type |-> "absent", v |-> ""]
JNull == [type |-> "null", v |-> ""]
JStr(s) == [type |-> "string", v |-> s]
JNum(s) == [type |-> "number", v |-> s]
JBool(s) == [type |-> "bool", v |-> s]
JArr(s) == [type |-> "array", v |-> s]
JObj(s) == [type |-> "object", v |-> s]

\* value.as_str(): the string of a string member, None otherwise.
as_str(value) == IF value.type = "string" THEN [some |-> TRUE, v |-> value.v]
                                          ELSE [some |-> FALSE, v |-> ""]

\* value.as_array(): whether the member is an array.
as_array(value) == [some |-> value.type = "array", v |-> value.v]

\* The arrays that occur in arguments, and their elements.
NoStrings == "[]"
OneString == "[\"a\"]"
OneNumber == "[1]"
StringAndNumber == "[\"a\",1]"
Elements(text) ==
    CASE text = NoStrings -> <<>>
      [] text = OneString -> <<JStr("a")>>
      [] text = OneNumber -> <<JNum("1")>>
      [] text = StringAndNumber -> <<JStr("a"), JNum("1")>>

\* The "arguments" object of a tools/call request, by the members the tools
\* below require; NoArgs is {} or a missing "arguments".
NoArgs == [query |-> JAbsent, action |-> JAbsent, id |-> JAbsent, name |-> JAbsent,
           email |-> JAbsent, permission |-> JAbsent, bibcodes |-> JAbsent,
           library_id |-> JAbsent, bibcode |-> JAbsent, content |-> JAbsent,
           libraries |-> JAbsent, objects |-> JAbsent, references |-> JAbsent]

\* The "params" member of a request; NoParams when it is missing.
NoParams == [name |-> JAbsent, uri |-> JAbsent, arguments |-> NoArgs]

\* A JSON value that is not an object: every member lookup on it gives Null.
NotAnObject == [id |-> JAbsent, method |-> JAbsent, params |-> NoParams]

\* Lines that arrive on stdin.
EmptyLine == ""
BlankLine == "  "
\* Stands for a line of bytes that are not UTF-8 (0xff 0xfe).
InvalidUtf8Line == "<ff fe>"
GarbageLine == "{oops"
NumberLine == "42"
InitializeLine == "{\"jsonrpc\":\"2.0\",\"id\":1,\"method\":\"initialize\"}"
ToolsListLine == "{\"jsonrpc\":\"2.0\",\"id\":\"a\",\"method\":\"tools/list\"}"
ResourcesListLine == "{\"jsonrpc\":\"2.0\",\"method\":\"resources/list\"}"
ResourceReadLine ==
    "{\"jsonrpc\":\"2.0\",\"id\":2,\"method\":\"resources/read\",\"params\":{\"uri\":\"scix://fields\"}}"
ResourceReadNoUriLine == "{\"jsonrpc\":\"2.0\",\"id\":3,\"method\":\"resources/read\"}"
ResourceReadSyntaxLine ==
    "{\"jsonrpc\":\"2.0\",\"id\":13,\"method\":\"resources/read\",\"params\":{\"uri\":\"scix://syntax\"}}"
ResourceReadUnknownLine ==
    "{\"jsonrpc\":\"2.0\",\"id\":14,\"method\":\"resources/read\",\"params\":{\"uri\":\"scix://tools\"}}"
ResourceReadNumberUriLine ==
    "{\"jsonrpc\":\"2.0\",\"id\":15,\"method\":\"resources/read\",\"params\":{\"uri\":7}}"
InitializedLine == "{\"jsonrpc\":\"2.0\",\"method\":\"notifications/initialized\"}"
CancelledLine == "{\"jsonrpc\":\"2.0\",\"method\":\"notifications/cancelled\"}"
PingLine == "{\"jsonrpc\":\"2.0\",\"id\":4,\"method\":\"ping\"}"
SearchLine ==
    "{\"id\":5,\"method\":\"tools/call\",\"params\":{\"name\":\"scix_search\",\"arguments\":{\"query\":\"star\"}}}"
SearchNoQueryLine ==
    "{\"id\":6,\"method\":\"tools/call\",\"params\":{\"name\":\"scix_search\",\"arguments\":{}}}"
DeleteLibraryLine ==
    "{\"id\":7,\"method\":\"tools/call\",\"params\":{\"name\":\"scix_library\",\"arguments\":{\"action\":\"delete\",\"id\":\"L1\"}}}"
UnknownToolLine ==
    "{\"id\":8,\"method\":\"tools/call\",\"params\":{\"name\":\"scix_nope\"}}"
GetPaperLine ==
    "{\"id\":9,\"method\":\"tools/call\",\"params\":{\"name\":\"scix_get_paper\",\"arguments\":{\"bibcode\":\"2020A\"}}}"
AddByQueryLine ==
    "{\"id\":16,\"method\":\"tools/call\",\"params\":{\"name\":\"scix_library_documents\",\"arguments\":{\"action\":\"add_by_query\",\"library_id\":\"L1\",\"query\":\"star\"}}}"
NoMethodLine == "{\"jsonrpc\":\"2.0\",\"id\":10}"
NumberMethodLine == "{\"jsonrpc\":\"2.0\",\"id\":11,\"method\":7}"
InitializedWithIdLine == "{\"jsonrpc\":\"2.0\",\"id\":12,\"method\":\"notifications/initialized\"}"
CancelledWithIdLine == "{\"jsonrpc\":\"2.0\",\"id\":\"c\",\"method\":\"notifications/cancelled\"}"
NullIdLine == "{\"jsonrpc\":\"2.0\",\"id\":null,\"method\":\"ping\"}"
BoolIdLine == "{\"jsonrpc\":\"2.0\",\"id\":true,\"method\":\"initialize\"}"
ArrayIdLine == "{\"jsonrpc\":\"2.0\",\"id\":[1],\"method\":\"tools/list\"}"
ObjectIdLine == "{\"jsonrpc\":\"2.0\",\"id\":{\"a\":1},\"method\":\"resources/list\"}"

Lines == {EmptyLine, BlankLine, InvalidUtf8Line, GarbageLine, NumberLine, InitializeLine,
          ToolsListLine, ResourcesListLine, ResourceReadLine, ResourceReadNoUriLine,
          InitializedLine, CancelledLine, PingLine, SearchLine, SearchNoQueryLine,
          DeleteLibraryLine, UnknownToolLine, GetPaperLine, NoMethodLine,
          NumberMethodLine, InitializedWithIdLine, CancelledWithIdLine, NullIdLine,
          BoolIdLine, ArrayIdLine, ObjectIdLine, ResourceReadSyntaxLine,
          ResourceReadUnknownLine, ResourceReadNumberUriLine}

\* stdin.lock().lines() yields Err for a line that is not UTF-8.
ValidUtf8(line) == line # InvalidUtf8Line

\* line.trim().is_empty()
TrimIsEmpty(line) == line \in {EmptyLine, BlankLine}

ToolCall(id, name, arguments) ==
    [id |-> id, method |-> JStr("tools/call"),
     params |-> [name |-> JStr(name), uri |-> JAbsent, arguments |-> arguments]]

\* serde_json::from_str::<Value>(&line): the value the text spells, or the
\* error for a text that is not JSON (the empty text included).
from_str(line) ==
    CASE line = NumberLine -> [ok |-> TRUE, value |-> NotAnObject]
      [] line = InitializeLine ->
            [ok |-> TRUE,
             value |-> [id |-> JNum("1"), method |-> JStr("initialize"), params |-> NoParams]]
      [] line = ToolsListLine ->
            [ok |-> TRUE,
             value |-> [id |-> JStr("a"), method |-> JStr("tools/list"), params |-> NoParams]]
      [] line = ResourcesListLine ->
            [ok |-> TRUE,
             value |-> [id |-> JAbsent, method |-> JStr("resources/list"), params |-> NoParams]]
      [] line = ResourceReadLine ->
            [ok |-> TRUE,
             value |-> [id |-> JNum("2"), method |-> JStr("resources/read"),
                        params |-> [NoParams EXCEPT !.uri = JStr("scix://fields")]]]
      [] line = ResourceReadNoUriLine ->
            [ok |-> TRUE,
             value |-> [id |-> JNum("3"), method |-> JStr("resources/read"), params |-> NoParams]]
      [] line = ResourceReadSyntaxLine ->
            [ok |-> TRUE,
             value |-> [id |-> JNum("13"), method |-> JStr("resources/read"),
                        params |-> [NoParams EXCEPT !.uri = JStr("scix://syntax")]]]
      [] line = ResourceReadUnknownLine ->
            [ok |-> TRUE,
             value |-> [id |-> JNum("14"), method |-> JStr("resources/read"),
                        params |-> [NoParams EXCEPT !.uri = JStr("scix://tools")]]]
      [] line = ResourceReadNumberUriLine ->
            [ok |-> TRUE,
             value |-> [id |-> JNum("15"), method |-> JStr("resources/read"),
                        params |-> [NoParams EXCEPT !.uri = JNum("7")]]]
      [] line = InitializedLine ->
            [ok |-> TRUE,
             value |-> [id |-> JAbsent, method |-> JStr("notifications/initialized"),
                        params |-> NoParams]]
      [] line = CancelledLine ->
            [ok |-> TRUE,
             value |-> [id |-> JAbsent, method |-> JStr("notifications/cancelled"),
                        params |-> NoParams]]
      [] line = PingLine ->
            [ok |-> TRUE,
             value |-> [id |-> JNum("4"), method |-> JStr("ping"), params |-> NoParams]]
      [] line = SearchLine ->
            [ok |-> TRUE,
             value |-> ToolCall(JNum("5"), "scix_search", [NoArgs EXCEPT !.query = JStr("star")])]
      [] line = SearchNoQueryLine ->
            [ok |-> TRUE, value |-> ToolCall(JNum("6"), "scix_search", NoArgs)]
      [] line = DeleteLibraryLine ->
            [ok |-> TRUE,
             value |-> ToolCall(JNum("7"), "scix_library",
                                [NoArgs EXCEPT !.action = JStr("delete"), !.id = JStr("L1")])]
      [] line = UnknownToolLine ->
            [ok |-> TRUE, value |-> ToolCall(JNum("8"), "scix_nope", NoArgs)]
      [] line = GetPaperLine ->
            [ok |-> TRUE,
             value |-> ToolCall(JNum("9"), "scix_get_paper",
                                [NoArgs EXCEPT !.bibcode = JStr("2020A")])]
      [] line = AddByQueryLine ->
            [ok |-> TRUE,
             value |-> ToolCall(JNum("16"), "scix_library_documents",
                                [NoArgs EXCEPT !.action = JStr("add_by_query"),
                                               !.library_id = JStr("L1"),
                                               !.query = JStr("star")])]
      [] line = NoMethodLine ->
            [ok |-> TRUE, value |-> [id |-> JNum("10"), method |-> JAbsent, params |-> NoParams]]
      [] line = NumberMethodLine ->
            [ok |-> TRUE,
             value |-> [id |-> JNum("11"), method |-> JNum("7"), params |-> NoParams]]
      [] line = InitializedWithIdLine ->
            [ok |-> TRUE,
             value |-> [id |-> JNum("12"), method |-> JStr("notifications/initialized"),
                        params |-> NoParams]]
      [] line = CancelledWithIdLine ->
            [ok |-> TRUE,
             value |-> [id |-> JStr("c"), method |-> JStr("notifications/cancelled"),
                        params |-> NoParams]]
      [] line = NullIdLine ->
            [ok |-> TRUE, value |-> [id |-> JNull, method |-> JStr("ping"), params |-> NoParams]]
      [] line = BoolIdLine ->
            [ok |-> TRUE,
             value |-> [id |-> JBool("true"), method |-> JStr("initialize"),
                        params |-> NoParams]]
      [] line = ArrayIdLine ->
            [ok |-> TRUE,
             value |-> [id |-> JArr(OneNumber), method |-> JStr("tools/list"),
                        params |-> NoParams]]
      [] line = ObjectIdLine ->
            [ok |-> TRUE,
             value |-> [id |-> JObj("{\"a\":1}"), method |-> JStr("resources/list"),
                        params |-> NoParams]]
      [] OTHER -> [ok |-> FALSE, value |-> NotAnObject]

\* The variants of SciXError that the tools and the gateway add to those of
\* the transport.
ErrInvalidQuery(message) ==
    [kind |-> "InvalidQuery", status |-> None, text |-> message, retry_after |-> None]
ErrParse(message) ==
    [kind |-> "Parse", status |-> None, text |-> message, retry_after |-> None]
ErrConfig(message) ==
    [kind |-> "Config", status |-> None, text |-> message, retry_after |-> None]

\* serde_json::from_str of a response body: whether the text is JSON.
IsJson(text) == text \in {SearchBody, PaperBody, ExportBody}

\* Variant: the serde_json error is passed on with ? as it is, without
\* map_err.
parse_search_response_unmapped(text) ==
    IF text \in {SearchBody, PaperBody}
    THEN Ok(text)
    ELSE [kind |-> "Json", status |-> None, text |-> "expected value", retry_after |-> None]

\* parse_search_response: the body read as an ADS search response, which
\* stands here for the SearchResponse made from it.
parse_search_response(text) ==
    IF text \in {SearchBody, PaperBody} THEN Ok(text) ELSE ErrParse("Invalid ADS JSON")

\* results.papers.len() of that SearchResponse.
Papers(text) == IF text = PaperBody THEN 1 ELSE 0

\* parse_export_response: the body must be an object with a string "export".
parse_export_response(text) ==
    IF text = ExportBody THEN Ok("@ARTICLE{2020A}") ELSE ErrParse("Invalid export response")

\* serde_json::from_str(&body) into a Value or a struct of optional fields.
parse_json(text) == IF IsJson(text) THEN Ok(text) ELSE ErrParse("Invalid response")

\* tool_library: the arguments each action requires, in the order they are
\* tested, the transport method of its gateway operation, and whether that
\* operation reads the body as JSON.
LibraryActions ==
    [list |-> [requires |-> <<>>, method |-> "get", parses |-> TRUE],
     get |-> [requires |-> <<"id">>, method |-> "get", parses |-> TRUE],
     create |-> [requires |-> <<"name">>, method |-> "post_json", parses |-> TRUE],
     delete |-> [requires |-> <<"id">>, method |-> "delete", parses |-> FALSE],
     edit |-> [requires |-> <<"id">>, method |-> "put_json", parses |-> FALSE],
     permissions |-> [requires |-> <<"id">>, method |-> "get", parses |-> TRUE],
     update_permissions |-> [requires |-> <<"id", "email", "permission">>,
                             method |-> "post_json", parses |-> FALSE],
     transfer |-> [requires |-> <<"id", "email">>, method |-> "post_json", parses |-> FALSE]]

\* tool_library_documents, the match on the action: the arguments tested
\* with ok_or_else, in order (strings, or arrays where array is TRUE), the
\* transport method of the first outbound call and whether the gateway
\* operation reads the body as JSON.  "libraries" is read with as_array()
\* and passed on as an Option, it is not tested.
StrArg(field, message) == [field |-> field, array |-> FALSE, message |-> message]
ArrArg(field, message) == [field |-> field, array |-> TRUE, message |-> message]

SetOperation == [requires |-> <<>>, method |-> "post_json", parses |-> TRUE]
SaveNote ==
    [requires |-> <<StrArg("bibcode", "'bibcode' required for add_note/edit_note"),
                    StrArg("content", "'content' required for add_note/edit_note")>>,
     method |-> "post_json", parses |-> FALSE]

DocumentActions ==
    [add |-> [requires |-> <<ArrArg("bibcodes", "'bibcodes' array required")>>,
              method |-> "post_json", parses |-> FALSE],
     remove |-> [requires |-> <<ArrArg("bibcodes", "'bibcodes' array required")>>,
                 method |-> "post_json", parses |-> FALSE],
     get_notes |-> [requires |-> <<StrArg("bibcode", "'bibcode' required for get_notes")>>,
                    method |-> "get", parses |-> TRUE],
     add_note |-> SaveNote,
     edit_note |-> SaveNote,
     delete_note |-> [requires |-> <<StrArg("bibcode", "'bibcode' required for delete_note")>>,
                      method |-> "delete", parses |-> FALSE],
     union |-> SetOperation,
     intersection |-> SetOperation,
     difference |-> SetOperation,
     copy |-> SetOperation,
     empty |-> SetOperation,
     add_by_query |-> [requires |-> <<StrArg("query", "'query' required for add_by_query")>>,
                       method |-> "get", parses |-> TRUE]]

\* The tool runs up to its first outbound call: an argument that is missing
\* or not a string ends it with InvalidQuery, an unknown tool name with
\* Config; otherwise it calls a transport method.
Immediate(outcome) == [done |-> TRUE, outcome |-> outcome, method |-> "none"]
Outbound(m) == [done |-> FALSE, outcome |-> NoResult, method |-> m]

\* args[field].as_str().ok_or_else(..)? and
\* args[field].as_array().ok_or_else(..)?.iter().filter_map(|v| v.as_str()):
\* whether the argument passes.  An array passes whatever its elements are,
\* those that are not strings are left out of what is sent.
Passes(args, arg) ==
    IF arg.array THEN as_array(args[arg.field]).some ELSE as_str(args[arg.field]).some

\* The tests of a tool in their order, then its outbound call.
Validate(args, requires, m) ==
    LET failing == {i \in 1..Len(requires) : ~Passes(args, requires[i])}
        first == CHOOSE i \in failing : \A j \in failing : i <= j
    IN IF failing # {}
       THEN Immediate(ErrInvalidQuery(requires[first].message))
       ELSE Outbound(m)

tool_search(args) ==
    IF ~as_str(args.query).some
    THEN Immediate(ErrInvalidQuery("'query' parameter required"))
    ELSE Outbound("get")

tool_bigquery(args) ==
    Validate(args, <<ArrArg("bibcodes", "'bibcodes' array required")>>, "post_json")

tool_export(args) ==
    Validate(args, <<ArrArg("bibcodes", "'bibcodes' array required")>>, "post_json")

tool_metrics(args) ==
    Validate(args, <<ArrArg("bibcodes", "'bibcodes' array required")>>, "post_json")

tool_library(args) ==
    IF ~as_str(args.action).some
    THEN Immediate(ErrInvalidQuery("'action' parameter required"))
    ELSE IF as_str(args.action).v \notin DOMAIN LibraryActions
    THEN Immediate(ErrInvalidQuery("Unknown library action: " \o as_str(args.action).v))
    ELSE LET action == as_str(args.action).v
             plan == LibraryActions[action]
         IN Validate(args,
                     [i \in 1..Len(plan.requires) |->
                         StrArg(plan.requires[i],
                                "'" \o plan.requires[i] \o "' required for " \o action)],
                     plan.method)

tool_library_documents(args) ==
    IF ~as_str(args.action).some
    THEN Immediate(ErrInvalidQuery("'action' parameter required"))
    ELSE IF ~as_str(args.library_id).some
    THEN Immediate(ErrInvalidQuery("'library_id' required"))
    ELSE IF as_str(args.action).v \notin DOMAIN DocumentActions
    THEN Immediate(ErrInvalidQuery("Unknown document action: " \o as_str(args.action).v))
    ELSE LET plan == DocumentActions[as_str(args.action).v]
         IN Validate(args, plan.requires, plan.method)

tool_citation_helper(args) ==
    Validate(args, <<ArrArg("bibcodes", "'bibcodes' array required")>>, "post_json")

tool_network(args) ==
    Validate(args, <<ArrArg("bibcodes", "'bibcodes' array required")>>, "post_json")

tool_object_search(args) ==
    Validate(args, <<ArrArg("objects", "'objects' array required")>>, "post_json")

tool_resolve_reference(args) ==
    Validate(args, <<ArrArg("references", "'references' array required")>>, "post_text")

tool_resolve_links(args) ==
    Validate(args, <<StrArg("bibcode", "'bibcode' required")>>, "get")

tool_get_paper(args) ==
    Validate(args, <<StrArg("bibcode", "'bibcode' required")>>, "get")

\* Variant: the failure for an unknown tool does not name the tool.
unknown_tool_unnamed(tool_name) == Immediate(ErrConfig("Unknown tool"))

\* handle_tool_call, the last arm of the match on the tool name.
unknown_tool(tool_name) == Immediate(ErrConfig("Unknown tool: " \o tool_name))

\* handle_tool_call, the match on params["name"].
ToolStart(params) ==
    LET tool_name == IF as_str(params.name).some THEN as_str(params.name).v ELSE ""
        args == params.arguments
    IN CASE tool_name = "scix_search" -> tool_search(args)
         [] tool_name = "scix_bigquery" -> tool_bigquery(args)
         [] tool_name = "scix_export" -> tool_export(args)
         [] tool_name = "scix_metrics" -> tool_metrics(args)
         [] tool_name = "scix_library" -> tool_library(args)
         [] tool_name = "scix_library_documents" -> tool_library_documents(args)
         [] tool_name = "scix_citation_helper" -> tool_citation_helper(args)
         [] tool_name = "scix_network" -> tool_network(args)
         [] tool_name = "scix_object_search" -> tool_object_search(args)
         [] tool_name = "scix_resolve_reference" -> tool_resolve_reference(args)
         [] tool_name = "scix_resolve_links" -> tool_resolve_links(args)
         [] tool_name = "scix_get_paper" -> tool_get_paper(args)
         [] OTHER -> unknown_tool(tool_name)

\* Variant: an upstream error status is reported as a malformed response.
GatewayFinishWrapsApi(params, outcome) ==
    IF outcome.kind = "Api"
    THEN ErrParse("Invalid response")
    ELSE IF outcome.kind # "Ok"
    THEN outcome
    ELSE IF as_str(params.name).v \in {"scix_search", "scix_bigquery", "scix_get_paper"}
    THEN parse_search_response(outcome.text)
    ELSE parse_json(outcome.text)

\* The gateway operation after its transport method has returned: a failure
\* is passed on (the ? operator), a body is parsed where the operation
\* parses it.  add_documents_by_query starts with self.search(..), whose
\* body is read as a search response.
GatewayFinish(params, outcome) ==
    LET tool_name == as_str(params.name).v
        action == as_str(params.arguments.action).v
    IN IF outcome.kind # "Ok"
       THEN outcome
       ELSE CASE tool_name \in {"scix_search", "scix_bigquery", "scix_get_paper"} ->
                    parse_search_response(outcome.text)
              [] tool_name = "scix_export" -> parse_export_response(outcome.text)
              [] tool_name = "scix_library" ->
                    IF LibraryActions[action].parses THEN parse_json(outcome.text) ELSE Ok("")
              [] tool_name = "scix_library_documents" /\ action = "add_by_query" ->
                    parse_search_response(outcome.text)
              [] tool_name = "scix_library_documents" /\ action # "add_by_query" ->
                    IF DocumentActions[action].parses THEN parse_json(outcome.text) ELSE Ok("")
              [] OTHER -> parse_json(outcome.text)

\* The call is scix_library_documents with the action add_by_query.
AddByQuery(params) ==
    /\ as_str(params.name).some
    /\ as_str(params.name).v = "scix_library_documents"
    /\ as_str(params.arguments.action).some
    /\ as_str(params.arguments.action).v = "add_by_query"

\* Variant: add_documents is called whatever the search found.
add_documents_by_query_unconditional(results) ==
    IF results.kind # "Ok" THEN Immediate(results) ELSE Outbound("post_json")

\* add_documents_by_query from the return of self.search(..): its failure
\* is returned (the ? operator); with no bibcode found the operation returns
\* Ok(0); otherwise it goes on to self.add_documents(..).
add_documents_by_query(results) ==
    IF results.kind # "Ok"
    THEN Immediate(results)
    ELSE IF Papers(results.text) = 0
    THEN Immediate(Ok(ToString(0)))
    ELSE Outbound("post_json")

\* add_documents_by_query from the return of self.add_documents(..), which
\* is post_json(..).await? then Ok(()): a failure is returned, otherwise the
\* number of bibcodes the search found.
add_documents(results, outcome) ==
    IF outcome.kind # "Ok" THEN outcome ELSE Ok(ToString(Papers(results.text)))

\* tool_library_documents, the add_by_query arm after the operation returned.
AddedByQuery(count) ==
    IF count.kind # "Ok" THEN count ELSE Ok("Added " \o count.text \o " documents by query")

\* Variant: tool_get_paper renders an empty answer when the search gave no
\* paper.
ToolFinishEmptyPaper(params, outcome) ==
    IF GatewayFinish(params, outcome).kind # "Ok"
    THEN GatewayFinish(params, outcome)
    ELSE Ok("rendered: " \o GatewayFinish(params, outcome).text)

\* The tool after its gateway operation has returned: a failure is passed
\* on, a success is rendered as text; tool_get_paper fails with NotFound
\* when the search gave no paper.
ToolFinish(params, outcome) ==
    LET tool_name == as_str(params.name).v
        results == GatewayFinish(params, outcome)
    IN IF results.kind # "Ok"
       THEN results
       ELSE IF tool_name = "scix_get_paper" /\ Papers(results.text) = 0
       THEN ErrNotFound("Paper not found: " \o as_str(params.arguments.bibcode).v)
       ELSE Ok("rendered: " \o results.text)

\* Display of SciXError, the #[error(..)] formats.
Display(e) ==
    CASE e.kind = "Http" -> "HTTP request failed: " \o e.text
      [] e.kind = "Api" -> "API error (HTTP " \o ToString(e.status) \o "): " \o e.text
      [] e.kind = "AuthRequired" -> "Authentication required: set SCIX_API_TOKEN (or ADS_API_TOKEN) "
                \o "environment variable or pass token to SciXClient::new()"
      [] e.kind = "RateLimited" ->
            "Rate limited, retry after "
                \o (IF e.retry_after = None THEN "None"
                                            ELSE "Some(" \o ToString(e.retry_after) \o "s)")
      [] e.kind = "Parse" -> "Failed to parse response: " \o e.text
      [] e.kind = "InvalidQuery" -> "Invalid query: " \o e.text
      [] e.kind = "NotFound" -> "Not found: " \o e.text
      [] e.kind = "Config" -> "Configuration error: " \o e.text
      [] e.kind = "Json" -> "JSON error: " \o e.text

\* handle_tool_call, the text of the content item: the tool's text, or
\* format!("Error: {}", e).
ContentText(outcome) ==
    IF outcome.kind = "Ok" THEN outcome.text ELSE "Error: " \o Display(outcome)

\* handle_tool_call on its own, up to the tool's first outbound call, for
\* any of the tool names, any action of the two library tools, and
\* arguments that are all present and well shaped but for one, which is
\* missing, null, a string, a number, or an array of any content; and for
\* no arguments at all.
ToolNames ==
    {"scix_search", "scix_bigquery", "scix_export", "scix_metrics", "scix_library",
     "scix_library_documents", "scix_citation_helper", "scix_network",
     "scix_object_search", "scix_resolve_reference", "scix_resolve_links",
     "scix_get_paper", "scix_nope", "scix_Search", ""}
ActionNames == DOMAIN LibraryActions \cup DOMAIN DocumentActions \cup {"nope"}
ArgValues ==
    {JAbsent, JNull, JStr("x"), JNum("1"), JArr(NoStrings), JArr(OneString),
     JArr(OneNumber), JArr(StringAndNumber)}
ArrayArgs == {"bibcodes", "libraries", "objects", "references"}
FullArgs(action) ==
    [f \in DOMAIN NoArgs |->
        IF f = "action" THEN JStr(action)
        ELSE IF f \in ArrayArgs THEN JArr(OneString) ELSE JStr("x")]
ToolCalls ==
    {[name |-> JStr(tool_name), uri |-> JAbsent, arguments |-> NoArgs] :
        tool_name \in ToolNames}
    \cup {[name |-> JStr(tool_name), uri |-> JAbsent,
           arguments |-> [FullArgs(action) EXCEPT ![f] = value]] :
            tool_name \in ToolNames, action \in ActionNames,
            f \in DOMAIN NoArgs, value \in ArgValues}

InitValidate ==
    /\ InitLimiter
    /\ op = [t \in Tasks |-> "none"]
    /\ hr_in = NoResponse
    /\ hr_out = NoResult
    /\ tool_in \in ToolCalls
    /\ tool_out = NotStarted
    /\ hdr_in = NoHeaders
    /\ hdr_out = "none"

CallTool ==
    /\ tool_out = NotStarted
    /\ tool_out' = ToolStart(tool_in)
    /\ UNCHANGED <<now, limiterVars, taskVars, firstAdmit, transportVars, classifyVars,
                   tool_in, headerVars, serverVars>>

SpecValidate == InitValidate /\ [][CallTool]_vars

\* One gateway operation on its own, from the return of its outbound call:
\* the params of a call that passes the validation of its tool, and either
\* a response with any status, retry-after header and body, or a failure
\* of send().
GatewayCalls ==
    {c \in {[name |-> JStr(tool_name), uri |-> JAbsent, arguments |-> FullArgs(action)] :
               tool_name \in ToolNames, action \in ActionNames} :
        /\ ~ToolStart(c).done
        /\ as_str(c.name).v \notin {"scix_library", "scix_library_documents"}
               => as_str(c.arguments.action).v = "list"}

Responses ==
    [status : Statuses, retry_after : RetryAfterHeaders,
     body : BodyReads \cup {[ok |-> TRUE, text |-> ExportBody]}]

InitGateway ==
    /\ InitLimiter
    /\ op = [t \in Tasks |-> "none"]
    /\ hr_in \in Responses
    /\ hr_out = NoResult
    /\ tool_in \in GatewayCalls
    /\ tool_out = NotStarted
    /\ hdr_in = NoHeaders
    /\ hdr_out = "none"

\* send() gave a response: the transport method returns handle_response of
\* it, and the gateway operation goes on from there.
GatewayAfterResponse ==
    /\ hr_out = NoResult
    /\ hr_out' = handle_response(hr_in.status, hr_in.retry_after, hr_in.body)
    /\ gateway' = GatewayFinish(tool_in, hr_out')
    /\ UNCHANGED <<now, limiterVars, taskVars, firstAdmit, transportVars, hr_in, validateVars,
                   headerVars, loop, nRead, cur, written, log>>

\* send() failed: the transport method returns the Http error.
GatewayAfterSendFailure ==
    /\ hr_out = NoResult
    /\ hr_out' = ErrHttp
    /\ gateway' = GatewayFinish(tool_in, hr_out')
    /\ UNCHANGED <<now, limiterVars, taskVars, firstAdmit, transportVars, hr_in, validateVars,
                   headerVars, loop, nRead, cur, written, log>>

NextGateway == GatewayAfterResponse \/ GatewayAfterSendFailure

SpecGateway == InitGateway /\ [][NextGateway]_vars

\* A response line: the id, the code of its error member (None for a line
\* with a result member), the tool outcome behind a tools/call result, the
\* text of the content item or the message of the error member, whether
\* the result carries isError, and whether stdout has been flushed since
\* the line was written.
Response(id, code, outcome) ==
    [id |-> id, code |-> code, outcome |-> outcome,
     text |-> (IF code = None THEN ContentText(outcome) ELSE outcome.text),
     isError |-> (code = None /\ outcome.kind # "Ok"), flushed |-> FALSE]

\* Variant: a rate-limited or unauthorized tool outcome is reported as a
\* JSON-RPC error.
ToolResponseWithFaults(id, outcome) ==
    Response(id, IF outcome.kind \in {"RateLimited", "AuthRequired"} THEN -32000 ELSE None,
             outcome)

\* handle_tool_call, the match on the tool's result.
ToolResponse(id, outcome) == Response(id, None, outcome)

\* The result of resources/read: one contents entry with the uri, the mime
\* type and the text of the document.
Contents(uri, content) ==
    "{\"contents\":[{\"uri\":\"" \o uri \o "\",\"mimeType\":\"text/plain\",\"text\":\""
        \o content \o "\"}]}"

\* Variant: the contents entry always names the first document.
handle_resource_read_first_uri(id, params) ==
    LET uri == IF as_str(params.uri).some THEN as_str(params.uri).v ELSE ""
    IN CASE uri = "scix://fields" ->
                Response(id, None, Ok(Contents("scix://fields", "FIELDS_REFERENCE")))
         [] uri = "scix://syntax" ->
                Response(id, None, Ok(Contents("scix://fields", "SYNTAX_REFERENCE")))
         [] OTHER -> Response(id, -32602, ErrConfig("Unknown resource: " \o uri))

\* handle_resource_read: params["uri"].as_str().unwrap_or(""), then the
\* match on the uri.
handle_resource_read(id, params) ==
    LET uri == IF as_str(params.uri).some THEN as_str(params.uri).v ELSE ""
    IN CASE uri = "scix://fields" -> Response(id, None, Ok(Contents(uri, "FIELDS_REFERENCE")))
         [] uri = "scix://syntax" -> Response(id, None, Ok(Contents(uri, "SYNTAX_REFERENCE")))
         [] OTHER -> Response(id, -32602, ErrConfig("Unknown resource: " \o uri))

\* handle_resources_list: the two reference documents, by their uris.
handle_resources_list(id) ==
    Response(id, None,
             Ok("{\"resources\":[{\"uri\":\"scix://fields\"},{\"uri\":\"scix://syntax\"}]}"))

\* Variant: only the first notification name is known.
NotificationsInitializedOnly == {"notifications/initialized"}

\* Variant: an unknown method is dropped like a notification.
NotificationsAndPing == {"notifications/initialized", "notifications/cancelled", "ping"}

\* Methods for which run_server writes nothing.
Notifications == {"notifications/initialized", "notifications/cancelled"}

\* tool_definitions(): the "annotations" member of the entry of a tool.  The
\* two library tools are the only ones not declared read-only; no tool is
\* declared destructive.
annotations(tool_name) ==
    [readOnlyHint |-> tool_name \notin {"scix_library", "scix_library_documents"},
     destructiveHint |-> FALSE,
     idempotentHint |-> tool_name \notin {"scix_library", "scix_library_documents"},
     openWorldHint |-> TRUE]

\* The gateway operations of the tool address /biblib/.. , the endpoints
\* that hold the user's libraries.
LibraryEndpoint(tool_name) == tool_name \in {"scix_library", "scix_library_documents"}

\* Variant: the catalog without its last entry.
tool_definitions_without_get_paper ==
    <<"scix_search", "scix_bigquery", "scix_export", "scix_metrics", "scix_library",
      "scix_library_documents", "scix_citation_helper", "scix_network",
      "scix_object_search", "scix_resolve_reference", "scix_resolve_links">>

\* tool_definitions(): the catalog, by the names of its entries in order.
tool_definitions ==
    <<"scix_search", "scix_bigquery", "scix_export", "scix_metrics", "scix_library",
      "scix_library_documents", "scix_citation_helper", "scix_network",
      "scix_object_search", "scix_resolve_reference", "scix_resolve_links",
      "scix_get_paper">>

\* The text of a JSON array of names.
RECURSIVE Joined(_)
Joined(names) ==
    IF names = <<>> THEN ""
    ELSE IF Len(names) = 1 THEN "\"" \o Head(names) \o "\""
    ELSE "\"" \o Head(names) \o "\"," \o Joined(Tail(names))

handle_tools_list(id) ==
    Response(id, None, Ok("{\"tools\":[" \o Joined(tool_definitions) \o "]}"))

\* Variant: the catalog lists its last tool only once the server has
\* written a response.
DispatchGrowingCatalog(method, id, params) ==
    CASE method = "initialize" -> Response(id, None, Ok("serverInfo"))
      [] method = "tools/list" ->
            Response(id, None,
                     Ok("{\"tools\":["
                            \o Joined(SubSeq(tool_definitions, 1,
                                          IF log = <<>> THEN 11 ELSE 12))
                            \o "]}"))
      [] method = "resources/list" -> handle_resources_list(id)
      [] method = "resources/read" -> handle_resource_read(id, params)
      [] OTHER -> Response(id, -32601, ErrConfig("Method not found: " \o method))

\* Variant: an unknown method is reported as an invalid request, with no id.
DispatchInvalidRequest(method, id, params) ==
    CASE method = "initialize" -> Response(id, None, Ok("serverInfo"))
      [] method = "tools/list" -> handle_tools_list(id)
      [] method = "resources/list" -> handle_resources_list(id)
      [] method = "resources/read" -> handle_resource_read(id, params)
      [] OTHER -> Response(JNull, -32600, ErrConfig("Invalid request: " \o method))

\* run_server, the match on the method, for the handlers that do not await.
Dispatch(method, id, params) ==
    CASE method = "initialize" -> Response(id, None, Ok("serverInfo"))
      [] method = "tools/list" -> handle_tools_list(id)
      [] method = "resources/list" -> handle_resources_list(id)
      [] method = "resources/read" -> handle_resource_read(id, params)
      [] OTHER -> Response(id, -32601, ErrConfig("Method not found: " \o method))

\* The task that runs run_server.
Server == 1

\* writeln!(stdout.lock(), ..) then stdout.lock().flush(): either may fail,
\* and run_server then returns the error.
Emit(response) ==
    \/ /\ written' = <<[response EXCEPT !.flushed = TRUE]>>
       /\ loop' = "idle"
    \/ /\ written' = <<response>>
       /\ loop' = "stdout_error"
    \/ /\ written' = <<>>
       /\ loop' = "stdout_error"

\* The parse-error path: writeln! alone, then continue.
EmitParseError ==
    \/ /\ written' = <<Response(JNull, -32700, ErrParse("Parse error"))>>
       /\ loop' = "idle"
    \/ /\ written' = <<>>
       /\ loop' = "stdout_error"

\* Variant: the tool's outbound call is started and left running by itself,
\* run_server goes back to the head of its loop without awaiting it.
handle_tool_call_spawned(id, params) ==
    IF ToolStart(params).done
    THEN /\ Emit(ToolResponse(id, ToolStart(params).outcome))
         /\ UNCHANGED <<now, limiterVars, taskVars, firstAdmit, transportVars>>
    ELSE /\ Issue(Server, ToolStart(params).method)
         /\ loop' = "idle"
         /\ written' = <<>>

\* handle_tool_call(&client, &id, &request["params"]).await up to its first
\* await that suspends: a tool that ends without an outbound call has its
\* response written at once; otherwise the transport method is entered.
handle_tool_call(id, params) ==
    IF ToolStart(params).done
    THEN /\ Emit(ToolResponse(id, ToolStart(params).outcome))
         /\ UNCHANGED <<now, limiterVars, taskVars, firstAdmit, transportVars>>
    ELSE /\ Issue(Server, ToolStart(params).method)
         /\ loop' = "handling"
         /\ written' = <<>>

\* One turn of the for loop of run_server on the line it takes from stdin,
\* up to the next read or to the first await that suspends.
Serve(line) ==
    /\ nRead < MaxLines
    /\ nRead' = nRead + 1
    /\ cur' = line
    /\ gateway' = NoResult
    /\ UNCHANGED <<classifyVars, validateVars, headerVars>>
    /\ IF ~ValidUtf8(line)
       THEN /\ loop' = "stdin_error"
            /\ written' = <<>>
            /\ UNCHANGED <<now, limiterVars, taskVars, firstAdmit, transportVars>>
       ELSE IF TrimIsEmpty(line)
       THEN /\ loop' = "idle"
            /\ written' = <<>>
            /\ UNCHANGED <<now, limiterVars, taskVars, firstAdmit, transportVars>>
       ELSE IF ~from_str(line).ok
       THEN /\ EmitParseError
            /\ UNCHANGED <<now, limiterVars, taskVars, firstAdmit, transportVars>>
       ELSE LET request == from_str(line).value
                id == IF request.id = JAbsent THEN JNull ELSE request.id
                method == IF as_str(request.method).some THEN as_str(request.method).v ELSE ""
            IN IF method = "tools/call"
               THEN handle_tool_call(id, request.params)
               ELSE IF method \in Notifications
               THEN /\ loop' = "idle"
                    /\ written' = <<>>
                    /\ UNCHANGED <<now, limiterVars, taskVars, firstAdmit, transportVars>>
               ELSE /\ Emit(Dispatch(method, id, request.params))
                    /\ UNCHANGED <<now, limiterVars, taskVars, firstAdmit, transportVars>>
    /\ log' = IF written' = <<>> THEN log ELSE Append(log, nRead')

\* Variant: run_server returns at the end of input although
\* handle_tool_call is still awaited.
EndOfInputWhileHandling ==
    /\ loop \in {"idle", "handling"}
    /\ loop' = "closed"
    /\ UNCHANGED <<now, limiterVars, taskVars, firstAdmit, transportVars, classifyVars,
                   validateVars, headerVars, nRead, cur, written, gateway, log>>

\* Variant: the next line is taken while handle_tool_call is still awaited.
ReadLineWhileHandling(line) ==
    /\ loop \in {"idle", "handling"}
    /\ Serve(line)

\* for line in stdin.lock().lines(): the next line is taken only at the
\* head of the loop.
ReadLine(line) ==
    /\ loop = "idle"
    /\ Serve(line)

\* lines() ends: run_server returns Ok(()).
EndOfInput ==
    /\ loop = "idle"
    /\ loop' = "closed"
    /\ UNCHANGED <<now, limiterVars, taskVars, firstAdmit, transportVars, classifyVars,
                   validateVars, headerVars, nRead, cur, written, gateway, log>>

\* The transport method awaited inside the tool has returned: the tool ends,
\* handle_tool_call builds the response and run_server writes it.  Inside
\* add_documents_by_query the return of the search is followed by the call
\* of add_documents when the search found a paper, and run_server goes on
\* awaiting.
ToolResume ==
    /\ loop = "handling"
    /\ pc[Server] = "idle"
    /\ result[Server] # NoResult
    /\ \E outcome \in (IF result[Server] = Handled THEN HandledOutcomes ELSE {result[Server]}) :
           LET request == from_str(cur).value
               id == IF request.id = JAbsent THEN JNull ELSE request.id
               results == GatewayFinish(request.params, outcome)
           IN IF ~AddByQuery(request.params)
              THEN /\ Emit(ToolResponse(id, ToolFinish(request.params, outcome)))
                   /\ gateway' = results
                   /\ UNCHANGED <<now, limiterVars, taskVars, firstAdmit, transportVars>>
              ELSE IF gateway = NoResult /\ ~add_documents_by_query(results).done
              THEN /\ Issue(Server, add_documents_by_query(results).method)
                   /\ gateway' = results
                   /\ UNCHANGED <<loop, written>>
              ELSE LET count == IF gateway = NoResult
                                THEN add_documents_by_query(results).outcome
                                ELSE add_documents(gateway, outcome)
                   IN /\ Emit(ToolResponse(id, AddedByQuery(count)))
                      /\ gateway' = count
                      /\ UNCHANGED <<now, limiterVars, taskVars, firstAdmit, transportVars>>
    /\ log' = IF written' = <<>> THEN log ELSE Append(log, nRead)
    /\ UNCHANGED <<classifyVars, validateVars, headerVars, nRead, cur>>

\* run_server on a new client, fed lines on stdin.
InitServer ==
    /\ InitLimiter
    /\ op = [t \in Tasks |-> "none"]
    /\ hr_in = NoResponse
    /\ hr_out = NoResult
    /\ tool_in = NoCall
    /\ tool_out = NotStarted
    /\ hdr_in = NoHeaders
    /\ hdr_out = "none"

\* The server is the only caller of its client: acquire() always finds the
\* mutex free.
NextServer ==
    \/ Tick
    \/ \E line \in Lines : ReadLine(line)
    \/ EndOfInput
    \/ ToolResume
    \/ ServerCheck(Server)
    \/ WakeServer(Server)
    \/ WakeLocal(Server)
    \/ SendFails(Server)
    \/ Respond(Server)

SpecServer == InitServer /\ [][NextServer]_vars

\* run_server fed calls of the add_by_query action and of the search tool.
AddByQueryLines == {AddByQueryLine, SearchLine}

NextAddByQuery ==
    \/ Tick
    \/ \E line \in AddByQueryLines : ReadLine(line)
    \/ EndOfInput
    \/ ToolResume
    \/ ServerCheck(Server)
    \/ WakeServer(Server)
    \/ WakeLocal(Server)
    \/ SendFails(Server)
    \/ Respond(Server)

SpecAddByQuery == InitServer /\ [][NextAddByQuery]_vars

\* Time goes on past the horizon of the model for as long as a sleep of
\* acquire() has not reached its deadline.
Elapse ==
    /\ now >= MaxTime
    /\ \E t \in Tasks : pc[t] \in {"sleep_server", "sleep_local"} /\ now < wake[t]
    /\ now' = now + 1
    /\ UNCHANGED <<limiterVars, taskVars, firstAdmit, outsideLimiter>>

\* One line for each way run_server can go through a turn of its loop: the
\* stdin error, the skipped blank line, the parse error, a handler that
\* answers at once with a result or with an error, a notification, an
\* unknown method, and tools/call with a tool that fails before any
\* outbound call, an unknown tool, and a tool that awaits the gateway.
TurnLines == {InvalidUtf8Line, BlankLine, GarbageLine, InitializeLine,
              ResourceReadUnknownLine, InitializedLine, PingLine, SearchNoQueryLine,
              UnknownToolLine, SearchLine}

NextServerFair ==
    \/ Tick
    \/ Elapse
    \/ \E line \in TurnLines : ReadLine(line)
    \/ EndOfInput
    \/ ToolResume
    \/ ServerCheck(Server)
    \/ WakeServer(Server)
    \/ WakeLocal(Server)
    \/ SendFails(Server)
    \/ Respond(Server)

\* run_server on a finite input under a runtime that keeps going: time
\* passes, stdin comes to its end, a sleep that is over and a lock that is
\* free resume acquire(), send().await ends one way or the other, and the
\* awaited tool resumes run_server.
SpecServerFair ==
    /\ InitServer
    /\ [][NextServerFair]_vars
    /\ WF_vars(Tick \/ Elapse)
    /\ WF_vars(EndOfInput)
    /\ WF_vars(ServerCheck(Server))
    /\ WF_vars(WakeServer(Server))
    /\ WF_vars(WakeLocal(Server))
    /\ WF_vars(SendFails(Server) \/ Respond(Server))
    /\ WF_vars(ToolResume)

\* A step of the runtime inside some acquire() call: the task that holds
\* the guard runs on, the mutex hands the free guard to a task that waits
\* for it, or a task whose sleep is over takes the free guard.
Resume ==
    \E t \in Tasks : ServerCheck(t) \/ Lock(t) \/ WakeServer(t) \/ WakeLocal(t)

NextFair == Next \/ Elapse

\* The limiter under a runtime that keeps going: time passes, and a call
\* that can run does not wait for ever.
SpecFair ==
    /\ Init
    /\ [][NextFair]_vars
    /\ WF_vars(Tick \/ Elapse)
    /\ WF_vars(Resume)

\* ------------------------------------------------- properties: rate_limit.rs
NoQuotaStored == server_remaining = None /\ server_reset = None

\* C1: N acquire() calls by N tasks on one limiter with no server quota
\* stored: once all have returned, the time from the first return to the
\* last is at least (N-1)/R seconds.
C1_ConcurrentSpan ==
    (/\ NoQuotaStored
     /\ Callers # {}
     /\ InFlight = {}
     /\ \A t \in Callers : calls[t] = 1)
    => (last_request - firstAdmit) * max_per_second >= (nAdmitted - 1) * TicksPerSecond

\* C2: an acquire() issued while server_remaining = 0 and the stored reset
\* instant T is ahead, with no update_from_headers since, does not return
\* before T.
C2_WaitsForReset ==
    [][\A t \in Tasks :
          (quotaAtCall[t] = "closed" /\ t \in InFlight /\ t \notin InFlight')
          => now' >= server_reset']_vars

\* A call issued under a closed window has returned, at or after T.
C2_Witness ==
    \E t \in Tasks :
        /\ quotaAtCall[t] = "closed"
        /\ pc[t] = "idle"
        /\ server_remaining = 0
        /\ last_request # None
        /\ last_request >= server_reset

\* C3: an acquire() issued at or after the stored reset instant, with
\* server_remaining still 0 and no update_from_headers since, is never in
\* the server-window sleep.
C3_NoServerWaitAfterReset ==
    \A t \in Tasks : quotaAtCall[t] = "expired" => pc[t] # "sleep_server"

\* A call issued exactly at the reset instant is held back by the local
\* spacing alone.
C3_Witness ==
    \E t \in Tasks :
        /\ quotaAtCall[t] = "expired"
        /\ pc[t] = "sleep_local"
        /\ server_remaining = 0
        /\ server_reset # None

\* C4: while the first acquire() on a new limiter is the only call issued
\* and nothing has been observed from the server, no task is suspended: not
\* queued for the mutex, not in either sleep.
C4_FirstCallImmediate ==
    (TotalCalls = 1 /\ NoQuotaStored)
    => \A t \in Tasks : pc[t] \in {"idle", "locked"}

\* The first call has returned, for the lowest ceiling, later than the
\* limiter's construction.
C4_Witness ==
    /\ TotalCalls = 1
    /\ NoQuotaStored
    /\ pc[1] = "idle"
    /\ last_request # None
    /\ last_request > 0
    /\ max_per_second = 1

\* C5: with a single caller, each admission after the first comes at least
\* 1/R seconds after the one before it, and the k admissions so far span at
\* least (k-1)/R seconds.
C5_SequentialSpacing ==
    [][(Callers \subseteq {1} /\ last_request # None /\ nAdmitted' = nAdmitted + 1)
       => /\ (last_request' - last_request) * max_per_second >= TicksPerSecond
          /\ (last_request' - firstAdmit') * max_per_second
                >= (nAdmitted' - 1) * TicksPerSecond]_vars

\* A single caller has had three admissions, each held back by the spacing.
C5_Witness ==
    /\ Callers = {1}
    /\ nAdmitted = 3
    /\ NoQuotaStored
    /\ (last_request - firstAdmit) * max_per_second = 2 * TicksPerSecond

\* Tasks suspended in one of the two sleeps of acquire().
Sleeping == {t \in Tasks : pc[t] \in {"sleep_server", "sleep_local"}}

\* C22: no task holds the mutex while it is in a sleep of acquire(): the
\* mutex is free or held by a task that is running with the guard; and
\* with the mutex free, whoever sleeps, update_from_headers can run and a
\* queued acquire() can take the mutex.
C22_SleepReleasesMutex ==
    /\ \A t \in Sleeping : mutex # t
    /\ mutex # 0 => pc[mutex] = "locked"
    /\ (Sleeping # {} /\ mutex = 0) =>
           /\ ENABLED Observe
           /\ \A u \in Tasks : pc[u] = "lock_wait" => ENABLED Lock(u)

\* While task 1 is still in its server-window sleep, update_from_headers
\* has stored a new quota and task 2 has called acquire() and returned.
C22_Witness ==
    /\ pc[1] = "sleep_server"
    /\ now < wake[1]
    /\ server_remaining = 1
    /\ calls[2] = 1
    /\ pc[2] = "idle"
    /\ last_request # None

\* C23: no acquire() returns at a moment when the stored remaining count
\* is 0 and the stored reset instant is still ahead, whatever
\* update_from_headers stored while the call was waiting.
C23_NoReturnInClosedWindow ==
    [][\A t \in Tasks :
          (t \in InFlight /\ t \notin InFlight')
          => ~(server_remaining' = 0 /\ server_reset' # None /\ now' < server_reset')]_vars

\* C30: an acquire() whose server-window sleep is over reads last_request
\* and, when less than 1/R seconds have passed since it, does not return
\* but sleeps to a deadline at least 1/R seconds after that value; no
\* local-spacing sleep is left before its deadline.
C30_ChecksCompose ==
    [][\A t \in Tasks :
          /\ (pc[t] = "sleep_server" /\ pc'[t] # "sleep_server")
             => \/ last_request = None
                \/ (now - last_request) * max_per_second >= TicksPerSecond
                \/ /\ pc'[t] = "sleep_local"
                   /\ (wake'[t] - last_request) * max_per_second >= TicksPerSecond
          /\ (pc[t] = "sleep_local" /\ pc'[t] # "sleep_local") => now >= wake[t]]_vars

\* A call issued under a closed window has slept to the reset instant and
\* is now in the local-spacing sleep behind the request of another task.
C30_Witness ==
    \E t \in Tasks :
        /\ quotaAtCall[t] = "closed"
        /\ pc[t] = "sleep_local"
        /\ now >= server_reset
        /\ now < wake[t]
        /\ last_request = now

\* C31: a call enters the server-window sleep only from the guarded test
\* at its start, the local-spacing sleep only from that test or from the
\* end of the server-window sleep, leaves the server-window sleep for the
\* local check only, and leaves the local-spacing sleep by returning: at
\* most one sleep of each kind, each deadline set once. Under fair
\* scheduling every call returns.
C31_TwoSuspensionsThenReturn ==
    /\ [][\A t \in Tasks :
             /\ (pc'[t] = "sleep_server" /\ pc[t] # "sleep_server") => pc[t] = "locked"
             /\ (pc'[t] = "sleep_local" /\ pc[t] # "sleep_local")
                    => pc[t] \in {"locked", "sleep_server"}
             /\ (pc[t] = "sleep_server" /\ pc'[t] # "sleep_server")
                    => (pc'[t] = "sleep_local" \/ t \notin InFlight')
             /\ (pc[t] = "sleep_local" /\ pc'[t] # "sleep_local") => t \notin InFlight'
             /\ (pc[t] = pc'[t] /\ pc[t] \in {"sleep_server", "sleep_local"})
                    => wake'[t] = wake[t]]_vars
    /\ \A t \in Tasks : (t \in InFlight) ~> (t \notin InFlight)

\* Task 1 has returned from a call that slept to the reset instant and then
\* for the local spacing behind the request of task 2.
C31_Witness ==
    /\ quotaAtCall[1] = "closed"
    /\ pc[1] = "idle"
    /\ calls[1] = 1
    /\ calls[2] = 1
    /\ pc[2] = "idle"
    /\ last_request > server_reset
    /\ server_remaining = 0

\* Header values that parse::<u32>() or parse::<u64>() rejects, and a header
\* that is missing.
NotAU32 == {Absent, "n/a", "soon", "-1", "4294967296", "18446744073709551615"}
NotAU64 == {Absent, "n/a", "soon", "-1"}

\* The step in which the call of update_from_headers ends.
HeadersCallEnds == hdr_out = "pending" /\ hdr_out' # "pending"

\* C25: update_from_headers never fails; a remaining-count header that is
\* missing or unparseable leaves server_remaining unchanged, a reset header
\* that is missing or unparseable leaves server_reset unchanged, and
\* last_request and max_per_second are never changed.
C25_NeverFailsAndFrame ==
    [][HeadersCallEnds =>
          /\ hdr_out' = "returned"
          /\ hdr_in.remaining \in NotAU32 => server_remaining' = server_remaining
          /\ hdr_in.reset \in NotAU64 => server_reset' = server_reset
          /\ last_request' = last_request
          /\ max_per_second' = max_per_second]_vars

\* The frame part of C25 alone.
HeadersFrame ==
    [][HeadersCallEnds =>
          /\ hdr_in.remaining \in NotAU32 => server_remaining' = server_remaining
          /\ hdr_in.reset \in NotAU64 => server_reset' = server_reset
          /\ last_request' = last_request
          /\ max_per_second' = max_per_second]_vars

\* The reset header is a number of seconds that the clock has not reached.
ResetInFuture == hdr_in.reset \notin NotAU64 /\ ParseU64(hdr_in.reset) * TicksPerSecond > now

\* C35: update_from_headers changes server_reset only for a reset
\* timestamp strictly in the future; with a timestamp at or before the
\* current time the stored server_reset stays as it was, while a
\* remaining count that parses is stored all the same.
C35_ResetStoredOnlyIfFuture ==
    [][HeadersCallEnds =>
          /\ server_reset' # server_reset => ResetInFuture
          /\ (hdr_in.reset \notin NotAU64 /\ ~ResetInFuture)
                 => /\ hdr_out' = "returned"
                    /\ server_reset' = server_reset
                    /\ hdr_in.remaining \notin NotAU32
                           => server_remaining' = ParseU32(hdr_in.remaining)]_vars

\* A response with remaining 0 and a reset timestamp of second 1 came at
\* second 1 or later: the count 0 is stored next to the reset instant
\* that was stored before, which is already reached.
C35_Witness ==
    /\ hdr_out = "returned"
    /\ hdr_in = [remaining |-> "0", reset |-> "1"]
    /\ now >= TicksPerSecond
    /\ server_remaining = 0
    /\ server_reset # None
    /\ server_reset < now

\* C26: every limiter a constructor builds has a ceiling greater than 0,
\* and no acquire() fails in computing the minimum interval.
C26_CeilingPositive ==
    /\ max_per_second > 0
    /\ \A t \in Tasks : pc[t] # "panicked"

\* The second half of C26 alone: no acquire() panics.
AcquireNeverPanics == \A t \in Tasks : pc[t] # "panicked"

\* ------------------------------------------------------ properties: client.rs
\* The outcome the status alone would decide.
StatusOutcome(status) ==
    CASE status \in 200..299 -> "Ok"
      [] status = 401 -> "AuthRequired"
      [] status = 404 -> "NotFound"
      [] status = 429 -> "RateLimited"
      [] OTHER -> "Api"

\* C6 as stated: the status alone decides the outcome; 200-299 gives
\* success with the body verbatim, 401 unauthorized, 404 not-found, 429
\* rate-limited, any other status upstream-error with the status and the
\* raw body.
C6_StatusAloneDecides ==
    hr_out # NoResult =>
        /\ hr_out.kind = StatusOutcome(hr_in.status)
        /\ hr_out.kind = "Ok" => hr_out.text = hr_in.body.text
        /\ hr_out.kind = "Api" =>
               hr_out.status = hr_in.status /\ hr_out.text = hr_in.body.text

\* C6 amended: 401, 404 and 429 are decided by the status alone; 200-299
\* gives success with the body verbatim when the body is read and the
\* transport failure when reading it fails; any other status gives
\* upstream-error with the status and the body, empty when reading it
\* fails.
C6_StatusAndBodyDecide ==
    hr_out # NoResult =>
        /\ hr_out.kind \in {"Ok", "Http", "AuthRequired", "NotFound", "RateLimited", "Api"}
        /\ hr_out.kind = (IF StatusOutcome(hr_in.status) = "Ok" /\ ~hr_in.body.ok
                          THEN "Http"
                          ELSE StatusOutcome(hr_in.status))
        /\ hr_out.kind = "Ok" => hr_out.text = hr_in.body.text
        /\ hr_out.kind = "Api" =>
               /\ hr_out.status = hr_in.status
               /\ hr_out.text = (IF hr_in.body.ok THEN hr_in.body.text ELSE "")

\* Status 299 with the body "oops" read has been classified.
C6_Witness ==
    /\ hr_in.status = 299
    /\ hr_in.body = [ok |-> TRUE, text |-> "oops"]
    /\ hr_out # NoResult

\* C32: the rate-limited outcome of a 429 response carries a retry-after
\* duration exactly when the response has a retry-after header.
C32_RetryAfterWhenPresent ==
    (hr_out # NoResult /\ hr_in.status = 429)
    => /\ hr_out.kind = "RateLimited"
       /\ hr_out.retry_after # None <=> hr_in.retry_after # Absent

\* What a transport method does when it runs to its end.
FullExchange == <<"acquire", "send", "update", "classify">>
FailedExchange == <<"acquire", "send_failed">>

IsPrefix(s, u) == Len(s) <= Len(u) /\ \A i \in 1..Len(s) : s[i] = u[i]

\* C7: a transport method does one acquire(), then one HTTP exchange, then
\* update_from_headers once if and only if a response came, then the
\* classification, each at most once and in this order; it returns only
\* after the classification or after the failed exchange.
C7_OneAcquireOneExchange ==
    \A t \in Tasks :
        /\ IsPrefix(events[t], FullExchange) \/ events[t] = FailedExchange
        /\ (pc[t] = "idle" /\ events[t] # <<>>) =>
               \/ events[t] = FullExchange /\ result[t] = Handled
               \/ events[t] = FailedExchange /\ result[t] = ErrHttp
        /\ pc[t] # "idle" => result[t] = NoResult /\ events[t] # FullExchange

\* A task's second method call has returned after a response, which told
\* the limiter that the quota is used up.
C7_Witness ==
    \E t \in Tasks :
        /\ pc[t] = "idle"
        /\ calls[t] = 2
        /\ events[t] = FullExchange
        /\ result[t] = Handled
        /\ server_remaining = 0

\* A transport method's acquire() returns, the request goes out.
Admitted(t) == pc[t] # "send" /\ pc'[t] = "send"

\* A transport method returns without a response.
FailsBeforeStatus(t) == pc[t] = "send" /\ result'[t] = ErrHttp

\* C36: a call that fails before a status is received returns the transport
\* failure without update_from_headers: server_remaining and server_reset
\* are as they were, and last_request, set to the current time when the call
\* was admitted and never moved back while the request was out, stays.
C36_TransportFailureFrame ==
    [][\A t \in Tasks :
          /\ Admitted(t) => last_request' = now
          /\ pc[t] = "send" => last_request # None /\ last_request' >= last_request
          /\ FailsBeforeStatus(t) =>
                 /\ pc'[t] = "idle"
                 /\ events'[t] = FailedExchange
                 /\ server_remaining' = server_remaining
                 /\ server_reset' = server_reset
                 /\ last_request' = last_request]_vars

\* A call failed before a status was received, on a limiter that an earlier
\* response had told about the server's quota.
C36_Witness ==
    \E t \in Tasks :
        /\ pc[t] = "idle"
        /\ result[t] = ErrHttp
        /\ events[t] = FailedExchange
        /\ server_remaining # None
        /\ last_request # None

\* --------------------------------------------------------- properties: mcp.rs
\* The line read last is not JSON text: not UTF-8, or refused by the parser
\* (the empty and the whitespace-only line are).
NotJson(line) == ~ValidUtf8(line) \/ ~from_str(line).ok

\* The line read last is JSON and its method is neither notification name.
IsRequestLine(line) ==
    /\ ValidUtf8(line)
    /\ from_str(line).ok
    /\ from_str(line).value.method \notin
           {JStr("notifications/initialized"), JStr("notifications/cancelled")}

\* C8: once a line that is not valid JSON (an empty or whitespace-only line
\* included) has been taken from stdin, and unless stdout itself failed,
\* exactly one response line with id null and code -32700 has been written
\* for it and the loop is at its head again (or ended by end of input).
C8_MalformedLineAnswered ==
    (nRead > 0 /\ NotJson(cur) /\ loop # "stdout_error")
    => /\ loop \in {"idle", "closed"}
       /\ Len(written) = 1
       /\ written[1].id = JNull
       /\ written[1].code = -32700

\* C9: for a JSON line whose method is not a notification name, at most one
\* response line is ever written, none while its handler is still running,
\* and exactly one, carrying the id of the request, by the time run_server
\* is back at the head of its loop to read the next line.
C9_ExactlyOneResponse ==
    (nRead > 0 /\ IsRequestLine(cur))
    => /\ Len(written) <= 1
       /\ loop = "handling" => written = <<>>
       /\ loop \in {"idle", "closed"} =>
              /\ Len(written) = 1
              /\ written[1].id = (IF from_str(cur).value.id = JAbsent
                                  THEN JNull
                                  ELSE from_str(cur).value.id)
       /\ loop # "stdin_error"

\* The second line read was a tools/call whose outbound call failed with
\* status 500; its one response is written and the loop is at its head.
C9_Witness ==
    /\ nRead = 2
    /\ cur = SearchLine
    /\ loop = "idle"
    /\ Len(written) = 1
    /\ written[1].isError
    /\ written[1].outcome.kind = "Api"
    /\ written[1].outcome.status = 500

\* handle_tool_call is suspended: in a sleep of acquire() or on the outbound
\* call.
HandlerSuspended ==
    /\ loop = "handling"
    /\ pc[Server] \in {"sleep_server", "sleep_local", "send"}

\* C10 as stated: while a tools/call handler is suspended and input is
\* left, run_server can take the next line from stdin.
C10_ReadsWhileSuspended ==
    (HandlerSuspended /\ nRead < MaxLines) => ENABLED (\E line \in Lines : ReadLine(line))

\* C10 amended: from the moment a tools/call line is read until its
\* response is written, run_server takes no further line from stdin; every
\* step taken while the handler is suspended leaves the count of lines read
\* and the line being served as they are.
C10_NoReadWhileHandling ==
    [][loop = "handling" => (nRead' = nRead /\ cur' = cur)]_vars

\* The handler of the second line, a library deletion, is in the
\* server-window sleep: the response to the first tool call reported the
\* quota as used up.
C10_Witness ==
    /\ HandlerSuspended
    /\ pc[Server] = "sleep_server"
    /\ nRead = 2
    /\ cur = DeleteLibraryLine

\* C11: responses are written in the order their requests were read, at
\* most one per line; and whenever run_server is at the head of its loop, to
\* read the next line or to end, no outbound call is in flight and the
\* response to the line read last, if it is a request, is the last written.
C11_ResponsesInReadOrder ==
    /\ \A i, j \in 1..Len(log) : i < j => log[i] < log[j]
    /\ loop \in {"idle", "closed"} =>
           /\ pc[Server] = "idle"
           /\ (nRead > 0 /\ IsRequestLine(cur)) => (log # <<>> /\ log[Len(log)] = nRead)

\* Two tool calls, each with an outbound call, have been answered in turn.
C11_Witness ==
    /\ log = <<1, 2>>
    /\ cur = SearchLine
    /\ calls[Server] = 2
    /\ loop = "idle"

\* Whether the text sub occurs in the text s.
Contains(s, sub) ==
    \E i \in 1..(Len(s) - Len(sub) + 1) : SubSeq(s, i, i + Len(sub) - 1) = sub

\* The names handle_tool_call matches.
DispatchTable ==
    {"scix_search", "scix_bigquery", "scix_export", "scix_metrics", "scix_library",
     "scix_library_documents", "scix_citation_helper", "scix_network",
     "scix_object_search", "scix_resolve_reference", "scix_resolve_links",
     "scix_get_paper"}

\* The line is a tools/call request.
IsToolCallLine(line) ==
    /\ ValidUtf8(line)
    /\ ~TrimIsEmpty(line)
    /\ from_str(line).ok
    /\ from_str(line).value # NotAnObject
    /\ from_str(line).value.method = JStr("tools/call")

\* The tool name a tools/call line asks for.
ToolNameOf(line) == as_str(from_str(line).value.params.name).v

\* C12: reading a tools/call line whose tool name is not in the dispatch
\* table starts no outbound call (no acquire(), no request, the handler is
\* not suspended), and the response written for it has a result member and
\* no error member, carries isError = true and a text that contains the
\* requested tool name; unless stdout fails, that response is written.
C12_UnknownToolNamed ==
    [][(nRead' = nRead + 1 /\ IsToolCallLine(cur') /\ ToolNameOf(cur') \notin DispatchTable)
          => /\ calls' = calls
             /\ pc' = pc
             /\ events' = events
             /\ loop' \in {"idle", "stdout_error"}
             /\ loop' = "idle" => Len(written') = 1
             /\ \A i \in 1..Len(written') :
                    /\ written'[i].code = None
                    /\ written'[i].isError
                    /\ Contains(written'[i].text, ToolNameOf(cur'))]_vars

\* After a search that went out, the second line named the tool scix_nope;
\* its response is written and the call count is still one.
C12_Witness ==
    /\ nRead = 2
    /\ cur = UnknownToolLine
    /\ loop = "idle"
    /\ calls[Server] = 1
    /\ Len(written) = 1
    /\ written[1].isError
    /\ written[1].text = "Error: Configuration error: Unknown tool: scix_nope"

\* The arguments each tool's inputSchema lists as required.
SchemaRequired(tool_name) ==
    CASE tool_name = "scix_search" -> {"query"}
      [] tool_name \in {"scix_bigquery", "scix_export", "scix_metrics",
                        "scix_citation_helper", "scix_network"} -> {"bibcodes"}
      [] tool_name = "scix_library" -> {"action"}
      [] tool_name = "scix_library_documents" -> {"action", "library_id"}
      [] tool_name = "scix_object_search" -> {"objects"}
      [] tool_name = "scix_resolve_reference" -> {"references"}
      [] tool_name \in {"scix_resolve_links", "scix_get_paper"} -> {"bibcode"}

\* The arguments the chosen action of a library tool requires: those the
\* gateway operation of the action cannot do without, as its documentation
\* states them (library_operation: the source libraries are required for
\* union, intersection, difference and copy).
ActionRequired(tool_name, action) ==
    CASE tool_name = "scix_library" /\ action \in {"get", "delete", "edit", "permissions"} ->
            {"id"}
      [] tool_name = "scix_library" /\ action = "create" -> {"name"}
      [] tool_name = "scix_library" /\ action = "update_permissions" ->
            {"id", "email", "permission"}
      [] tool_name = "scix_library" /\ action = "transfer" -> {"id", "email"}
      [] tool_name = "scix_library_documents" /\ action \in {"add", "remove"} -> {"bibcodes"}
      [] tool_name = "scix_library_documents" /\ action \in {"get_notes", "delete_note"} ->
            {"bibcode"}
      [] tool_name = "scix_library_documents" /\ action \in {"add_note", "edit_note"} ->
            {"bibcode", "content"}
      [] tool_name = "scix_library_documents"
            /\ action \in {"union", "intersection", "difference", "copy"} -> {"libraries"}
      [] tool_name = "scix_library_documents" /\ action = "add_by_query" -> {"query"}
      [] OTHER -> {}

RequiredArgs(params) ==
    SchemaRequired(as_str(params.name).v)
        \cup ActionRequired(as_str(params.name).v, as_str(params.arguments.action).v)

\* The tool ended with a failure before any outbound call.
FailedWithoutCall(out) == out.done /\ out.outcome.kind \notin {"Ok", "none"}

\* C13: for every tool of the dispatch table and every argument it
\* requires (by its schema or by the chosen action), a call that omits the
\* argument ends in a failure before any outbound call.
C13_MissingArgumentFails ==
    (tool_out # NotStarted /\ as_str(tool_in.name).v \in DispatchTable) =>
        \A f \in RequiredArgs(tool_in) :
            tool_in.arguments[f] = JAbsent => FailedWithoutCall(tool_out)

\* The argument is present and has the shape its tool reads it with: a
\* string, or for the array arguments an array whose elements are all
\* strings.
WellShaped(f, value) ==
    IF f \in ArrayArgs
    THEN /\ value.type = "array"
         /\ \A i \in 1..Len(Elements(value.v)) : Elements(value.v)[i].type = "string"
    ELSE value.type = "string"

\* C14: a call whose required argument is present but of the wrong shape
\* (not a string where a string is read, not an array or an array with an
\* element that is not a string where an array of strings is read) ends
\* with InvalidQuery before any outbound call.
C14_MistypedArgumentFails ==
    (tool_out # NotStarted /\ as_str(tool_in.name).v \in DispatchTable) =>
        \A f \in RequiredArgs(tool_in) :
            (tool_in.arguments[f] # JAbsent /\ ~WellShaped(f, tool_in.arguments[f]))
                => (tool_out.done /\ tool_out.outcome.kind = "InvalidQuery")

\* The two notification names, the five request methods and the catalog of
\* reference documents.
NotificationNames == {"notifications/initialized", "notifications/cancelled"}
RequestMethods == {"initialize", "tools/list", "resources/list", "resources/read", "tools/call"}
Catalog == {"scix://fields", "scix://syntax"}

\* The method a JSON line asks for; a missing or non-string method, and any
\* method of a value that is not an object, reads as the empty name.
MethodOf(line) == as_str(from_str(line).value.method).v

\* The error code the three protocol-level causes call for, None when the
\* line has none of them.
ProtocolFault(line) ==
    IF NotJson(line) THEN -32700
    ELSE IF MethodOf(line) \notin RequestMethods \cup NotificationNames THEN -32601
    ELSE IF /\ MethodOf(line) = "resources/read"
            /\ as_str(from_str(line).value.params.uri).v \notin Catalog THEN -32602
    ELSE None

\* C15: a response line carries an error member exactly when the line it
\* answers failed to parse (-32700), asked for an unknown method (-32601)
\* or read an unknown reference document (-32602), with that code; the
\* response to a tools/call has a result member whatever the tool outcome.
C15_ErrorMemberCauses ==
    \A i \in 1..Len(written) :
        /\ written[i].code = ProtocolFault(cur)
        /\ IsToolCallLine(cur) => written[i].code = None

\* A search was answered 429: the response carries the rate-limit failure
\* in a result member.
C15_Witness ==
    /\ cur = SearchLine
    /\ Len(written) = 1
    /\ written[1].outcome.kind = "RateLimited"
    /\ written[1].code = None
    /\ written[1].isError

\* The params of the tools/call line read last, and how its tool started.
ParamsOf(line) == from_str(line).value.params
StartOf(line) == ToolStart(ParamsOf(line))

\* The tool ended in argument validation: InvalidQuery before any outbound
\* call.
ValidationFailed(line) == StartOf(line).done /\ StartOf(line).outcome.kind = "InvalidQuery"

\* The gateway operation the tool awaited returned a failure.
GatewayFailed == gateway.kind \notin {"Ok", "none"}

\* C16 as stated: the response to a tools/call carries isError exactly when
\* argument validation or the gateway operation returned a failure.
C16_MarkedIffGatewayOrValidation ==
    (IsToolCallLine(cur) /\ Len(written) = 1) =>
        (written[1].isError <=> (ValidationFailed(cur) \/ GatewayFailed))

\* C16 amended: the response to a tools/call carries isError exactly when
\* the tool returned a failure, that is when argument validation failed,
\* when the tool name is unknown, when the gateway operation failed, or
\* when scix_get_paper got an answer without any paper; the text is then
\* "Error: " and the failure's message.  Otherwise the response carries no
\* marker and its one content item is the text the tool rendered from the
\* gateway's answer.
C16_MarkedIffToolFailed ==
    (IsToolCallLine(cur) /\ Len(written) = 1) =>
        /\ written[1].isError <=>
               \/ ValidationFailed(cur)
               \/ ToolNameOf(cur) \notin DispatchTable
               \/ GatewayFailed
               \/ /\ ToolNameOf(cur) = "scix_get_paper"
                  /\ gateway.kind = "Ok"
                  /\ Papers(gateway.text) = 0
        /\ written[1].isError =>
               /\ written[1].outcome.kind # "Ok"
               /\ written[1].text = "Error: " \o Display(written[1].outcome)
        /\ ~written[1].isError =>
               /\ written[1].outcome.kind = "Ok"
               /\ gateway.kind = "Ok"
               /\ written[1].text = "rendered: " \o gateway.text

\* scix_get_paper got an answer from the search with no documents in it:
\* the gateway operation succeeded and the response is marked isError.
C16_Witness ==
    /\ cur = GetPaperLine
    /\ Len(written) = 1
    /\ gateway = Ok(SearchBody)
    /\ written[1].isError
    /\ written[1].text = "Error: Not found: Paper not found: 2020A"

\* The id a response to the line carries: that of the request, null when
\* the request has none.
IdOf(line) == IF from_str(line).value.id = JAbsent THEN JNull ELSE from_str(line).value.id

\* The catalog as tools/list writes it.
CatalogText ==
    "{\"tools\":[\"scix_search\",\"scix_bigquery\",\"scix_export\",\"scix_metrics\","
        \o "\"scix_library\",\"scix_library_documents\",\"scix_citation_helper\","
        \o "\"scix_network\",\"scix_object_search\",\"scix_resolve_reference\","
        \o "\"scix_resolve_links\",\"scix_get_paper\"]}"

\* C17: in every state of the server, whatever was read, called and
\* answered before, the response written to a tools/list request is the
\* result line made of the request's id and the same catalog: it depends on
\* nothing but the id, so two requests with one id get identical lines.
C17_ToolsListIsConstant ==
    (nRead > 0 /\ ~NotJson(cur) /\ MethodOf(cur) = "tools/list") =>
        \A i \in 1..Len(written) :
            [written[i] EXCEPT !.flushed = FALSE] =
                [id |-> IdOf(cur), code |-> None, outcome |-> Ok(CatalogText),
                 text |-> CatalogText, isError |-> FALSE, flushed |-> FALSE]

\* tools/list is answered after a tool call that went out and whose
\* response reported the quota as used up.
C17_Witness ==
    /\ nRead = 2
    /\ cur = ToolsListLine
    /\ log = <<1, 2>>
    /\ calls[Server] = 1
    /\ server_remaining = 0
    /\ Len(written) = 1
    /\ written[1].text = CatalogText

\* C18: for a JSON line whose method is none of the five request methods
\* and neither notification name (a missing or non-string method and a
\* JSON value that is not an object included), nothing but one error
\* response with code -32601 and the id of the request (null when it has
\* none) is written, no handler is entered, and that response is written
\* by the time the loop is at its head again.
C18_UnknownMethodAnswered ==
    (nRead > 0 /\ ~NotJson(cur) /\ MethodOf(cur) \notin RequestMethods \cup NotificationNames)
    => /\ Len(written) <= 1
       /\ loop \notin {"handling", "stdin_error"}
       /\ pc[Server] = "idle"
       /\ loop \in {"idle", "closed"} => Len(written) = 1
       /\ \A i \in 1..Len(written) :
              /\ written[i].code = -32601
              /\ written[i].id = IdOf(cur)
              /\ ~written[i].isError

\* After a search was answered, a line whose method is the number 7 got
\* its method-not-found response with the id 11.
C18_Witness ==
    /\ nRead = 2
    /\ cur = NumberMethodLine
    /\ log = <<1, 2>>
    /\ loop = "idle"
    /\ written[1].code = -32601
    /\ written[1].id = JNum("11")
    /\ written[1].text = "Method not found: "

\* C19: for a line whose method is one of the two notification names, with
\* or without an id, nothing is written to stdout, no handler is entered,
\* and the loop is at its head, where it takes the next line (or has ended
\* on end of input).
C19_NotificationsSilent ==
    (nRead > 0 /\ ~NotJson(cur) /\ MethodOf(cur) \in NotificationNames)
    => /\ written = <<>>
       /\ \A i \in 1..Len(log) : log[i] # nRead
       /\ pc[Server] = "idle"
       /\ loop \in {"idle", "closed"}
       /\ (loop = "idle" /\ nRead < MaxLines) => ENABLED (\E line \in Lines : ReadLine(line))

\* A cancelled notification that carries an id was read after an answered
\* request: stdout still holds the one response.
C19_Witness ==
    /\ nRead = 2
    /\ cur = CancelledWithIdLine
    /\ log = <<1>>
    /\ written = <<>>
    /\ loop = "idle"

\* C20: the id of a response is the id of the request when that is a
\* string, a number, a boolean or null, and null when the request has no id
\* or one that is an array or an object.
C20_IdScalarOrNull ==
    (nRead > 0 /\ ~NotJson(cur)) =>
        \A i \in 1..Len(written) :
            written[i].id = (IF from_str(cur).value.id.type \in {"string", "number", "bool", "null"}
                             THEN from_str(cur).value.id
                             ELSE JNull)

\* C21: whenever run_server is at the head of its loop, about to read the
\* next line or to end, every response line written for the line read last
\* (parse error, method not found or a handler's result) has been followed
\* by a flush of stdout.
C21_EveryResponseFlushed ==
    loop \in {"idle", "closed"} => \A i \in 1..Len(written) : written[i].flushed

\* The closed taxonomy of failures, by the SciXError variant of each kind:
\* transport failure, unauthorized, not-found, rate-limited,
\* malformed-response, invalid-input, upstream-error, configuration-error.
Taxonomy ==
    {"Http", "AuthRequired", "NotFound", "RateLimited", "Parse", "InvalidQuery", "Api",
     "Config"}

\* C24: whatever a gateway operation called by a tool returns is a success
\* or a failure of one of the eight kinds, and so is the tool outcome that
\* handle_tool_call hands to the loop in its response.
C24_ClosedTaxonomy ==
    /\ gateway.kind \in Taxonomy \cup {"Ok", "none"}
    /\ \A i \in 1..Len(written) : written[i].outcome.kind \in Taxonomy \cup {"Ok"}

\* The second tool call, a library deletion, failed at the transport: its
\* response carries the transport failure.
C24_Witness ==
    /\ cur = DeleteLibraryLine
    /\ gateway.kind = "Http"
    /\ Len(written) = 1
    /\ written[1].isError
    /\ nRead = 2
    /\ calls[Server] = 2


\* The line asks for resources/read.
ReadsResource(line) == ~NotJson(line) /\ MethodOf(line) = "resources/read"

\* The uri is one that the response to resources/list names.
Listed(uri) == Contains(handle_resources_list(JNull).text, "{\"uri\":\"" \o uri \o "\"}")

\* The line's uri member is a string that resources/list names.
NamesDocument(line) ==
    /\ as_str(ParamsOf(line).uri).some
    /\ Listed(as_str(ParamsOf(line).uri).v)

\* C27: a resources/read whose uri is not one that resources/list names (a
\* missing or non-string uri included) is answered by one error response
\* with code -32602 and the request's id; one whose uri is listed is
\* answered by one result whose contents entry carries that uri.
C27_ResourceReadByUri ==
    (nRead > 0 /\ ReadsResource(cur))
    => /\ Len(written) <= 1
       /\ loop \in {"idle", "closed"} => Len(written) = 1
       /\ \A i \in 1..Len(written) :
              /\ written[i].id = IdOf(cur)
              /\ ~written[i].isError
              /\ IF NamesDocument(cur)
                 THEN /\ written[i].code = None
                      /\ Contains(written[i].text,
                                  "\"contents\":[{\"uri\":\""
                                      \o as_str(ParamsOf(cur).uri).v \o "\",")
                 ELSE written[i].code = -32602

\* After a failed search, the syntax guide was read and answered with the
\* id 13.
C27_Witness ==
    /\ nRead = 2
    /\ cur = ResourceReadSyntaxLine
    /\ loop = "idle"
    /\ log = <<1, 2>>
    /\ Len(written) = 1
    /\ written[1].id = JNum("13")
    /\ written[1].code = None

\* A read of a uri that is a number was answered with -32602 and the id 15.
ResourceReadRefused ==
    /\ cur = ResourceReadNumberUriLine
    /\ Len(written) = 1
    /\ written[1].code = -32602
    /\ written[1].id = JNum("15")


\* At the head of the loop every line can be taken next.
ServesNextLine ==
    (loop = "idle" /\ nRead < MaxLines) => \A line \in Lines : ENABLED ReadLine(line)

\* The line taken last was malformed, asked for an unknown method, or was a
\* tools/call whose gateway operation failed.
FailedLine ==
    /\ nRead > 0
    /\ \/ ~ValidUtf8(cur)
       \/ NotJson(cur)
       \/ MethodOf(cur) \notin RequestMethods \cup NotificationNames
       \/ GatewayFailed

\* C28: nothing a line holds ends the loop: after a malformed line, an
\* unknown method or a tools/call whose gateway operation failed, and
\* unless stdout itself failed, run_server is serving or back at the head
\* of its loop (or ended by end of input), where it takes any next line.
C28_NoLineEndsLoop ==
    /\ FailedLine => loop \in {"idle", "handling", "closed", "stdout_error"}
    /\ ServesNextLine


\* run_server has returned: Ok(()) at the end of input, or the error of
\* stdin or stdout.
Returned == loop \in {"closed", "stdin_error", "stdout_error"}

\* The request line taken last has its response written.
LastRequestAnswered ==
    (nRead > 0 /\ IsRequestLine(cur)) => (log # <<>> /\ log[Len(log)] = nRead)

\* C29: run_server returns Ok(()) only from the head of its loop at the end
\* of input; before it takes a further line or returns at the end of
\* input, the request line it took last has its response written, and a
\* response once written stays written, so at the end of input every
\* earlier request line has been answered; and on a finite input, with
\* handlers that terminate, run_server returns.
C29_EndOfInputTerminates ==
    /\ [][/\ (nRead' > nRead \/ (loop' = "closed" /\ loop # "closed"))
              => (loop = "idle" /\ LastRequestAnswered)
          /\ Len(log') >= Len(log) /\ SubSeq(log', 1, Len(log)) = log]_vars
    /\ <>Returned

\* Two tool calls were answered and the end of input was reached.
C29_Witness ==
    /\ loop = "closed"
    /\ nRead = 2
    /\ cur = SearchLine
    /\ log = <<1, 2>>
    /\ calls[Server] = 2


\* C33: a call of a tool name outside the dispatch table ends at once with
\* the invalid-input kind, the kind a missing argument gives.
C33_UnknownToolIsInvalidInput ==
    (tool_out # NotStarted /\ as_str(tool_in.name).v \notin DispatchTable)
    => /\ tool_out.done
       /\ tool_out.outcome.kind = "InvalidQuery"
       /\ tool_out.outcome.kind = tool_search(NoArgs).outcome.kind


\* The gateway operation of the call reads the body it is returned.
ReadsBody(params) ==
    LET tool_name == as_str(params.name).v
        action == as_str(params.arguments.action).v
    IN CASE tool_name = "scix_library" -> LibraryActions[action].parses
         [] tool_name = "scix_library_documents" -> DocumentActions[action].parses
         [] OTHER -> TRUE

\* The body is one the operation can read: an object with the "response"
\* member for the operations that search, an object with the "export"
\* member for the export, any JSON for the others.
Readable(params, text) ==
    LET tool_name == as_str(params.name).v
        searches == \/ tool_name \in {"scix_search", "scix_bigquery", "scix_get_paper"}
                    \/ /\ tool_name = "scix_library_documents"
                       /\ as_str(params.arguments.action).v = "add_by_query"
    IN CASE searches -> Contains(text, "{\"response\":")
         [] tool_name = "scix_export" -> Contains(text, "{\"export\":")
         [] OTHER -> Contains(text, "{\"")

\* C34: when the transport call fails the gateway operation returns that
\* failure as it is; it returns the malformed-response kind exactly when
\* the transport call succeeded and the operation could not read the body,
\* and success otherwise.
C34_GatewayPassesOrWrapsParse ==
    hr_out # NoResult =>
        /\ hr_out.kind # "Ok" => gateway = hr_out
        /\ gateway.kind = "Parse"
               <=> (hr_out.kind = "Ok" /\ ReadsBody(tool_in) /\ ~Readable(tool_in, hr_out.text))
        /\ (hr_out.kind = "Ok" /\ gateway.kind # "Parse") => gateway.kind = "Ok"

\* The metrics operation got a 500 response with a body and returned the
\* upstream error with that status and body.
C34_Witness ==
    /\ as_str(tool_in.name).v = "scix_metrics"
    /\ hr_in.status = 500
    /\ hr_in.body = [ok |-> TRUE, text |-> "oops"]
    /\ gateway = ErrApi(500, "oops")

\* A search got a 200 response whose body is not a search response and
\* returned the malformed-response kind.
GatewayWrapsParse ==
    /\ as_str(tool_in.name).v = "scix_search"
    /\ hr_in.status = 200
    /\ hr_out = Ok("oops")
    /\ gateway.kind = "Parse"

\* run_server is awaiting the add_by_query call it read last.
AddingByQuery == loop = "handling" /\ cur = AddByQueryLine

\* The step enters a transport method.
IssuesCall == calls'[Server] # calls[Server]

\* The step ends the tool call.
EndsToolCall == loop = "handling" /\ loop' # "handling"

\* C37: add_documents_by_query makes its outbound calls one after the other,
\* each through its own acquire(): the add request is entered only when the
\* search has returned a response that parsed to at least one paper; a
\* search that fails ends the operation with that failure and a search that
\* finds nothing ends it with 0, in both cases without a second call; after
\* the add request its failure or the number of papers found is returned.
C37_AddByQuerySequence ==
    [][/\ IssuesCall =>
             /\ pc[Server] = "idle"
             /\ calls'[Server] = calls[Server] + 1
             /\ events'[Server] = <<"acquire">>
       /\ (AddingByQuery /\ IssuesCall) =>
             /\ gateway = NoResult
             /\ events[Server] = FullExchange
             /\ result[Server] = Handled
             /\ op'[Server] = "post_json"
             /\ gateway'.kind = "Ok"
             /\ Papers(gateway'.text) >= 1
             /\ loop' = "handling"
             /\ written' = written
       /\ (AddingByQuery /\ EndsToolCall) =>
             /\ ~IssuesCall
             /\ gateway = NoResult =>
                    /\ result[Server] = ErrHttp => gateway' = ErrHttp
                    /\ gateway'.kind = "Ok" => gateway' = Ok("0")
             /\ gateway # NoResult =>
                    /\ result[Server] = ErrHttp => gateway' = ErrHttp
                    /\ gateway'.kind = "Ok" => gateway' = Ok(ToString(Papers(gateway.text)))
             /\ written' # <<>> =>
                    written'[1].text = ContentText(AddedByQuery(gateway'))]_vars

\* The search of an add_by_query call found a paper, the add request was
\* sent as the second call of the server and answered, and the tool reported
\* one document.
C37_Witness ==
    /\ cur = AddByQueryLine
    /\ loop = "idle"
    /\ calls[Server] = 2
    /\ gateway = Ok("1")
    /\ written # <<>>
    /\ written[1].text = "Added 1 documents by query"

\* The search of an add_by_query call found nothing: one call, result 0.
AddByQueryFoundNothing ==
    /\ cur = AddByQueryLine
    /\ loop = "idle"
    /\ calls[Server] = 1
    /\ gateway = Ok("0")

\* The search of an add_by_query call failed: one call, its failure.
AddByQuerySearchFailed ==
    /\ cur = AddByQueryLine
    /\ loop = "idle"
    /\ calls[Server] = 1
    /\ gateway.kind = "Api"

\* The names tools/list advertises.
Advertised == {tool_definitions[i] : i \in 1..Len(tool_definitions)}

\* handle_tool_call ended with the unknown-tool failure.
UnknownToolFailure ==
    /\ tool_out.done
    /\ tool_out.outcome = ErrConfig("Unknown tool: " \o as_str(tool_in.name).v)

\* C38: handle_tool_call hands a call to a tool, which then fails on its
\* arguments or makes its outbound call, exactly when the name is one that
\* tools/list advertises; every other name ends with the unknown-tool
\* failure.  Every advertised name is among the names called.
C38_CatalogIsDispatchTable ==
    /\ Advertised \subseteq ToolNames
    /\ tool_out # NotStarted =>
           /\ as_str(tool_in.name).v \in Advertised <=> ~UnknownToolFailure
           /\ as_str(tool_in.name).v \in Advertised =>
                  \/ ~tool_out.done /\ tool_out.method \in Methods
                  \/ tool_out.done /\ tool_out.outcome.kind = "InvalidQuery"

\* The last tool of the catalog was called with its argument and went on to
\* its outbound call.
C38_Witness ==
    /\ as_str(tool_in.name).v = tool_definitions[Len(tool_definitions)]
    /\ tool_out # NotStarted
    /\ ~tool_out.done

\* A name that differs from an advertised one by the case of a letter is
\* refused as unknown.
NearMissRefused ==
    /\ as_str(tool_in.name).v = "scix_Search"
    /\ tool_out # NotStarted
    /\ UnknownToolFailure

\* The tool called has gone on to an outbound call.
Calling == tool_out # NotStarted /\ ~tool_out.done

\* C39: a tool declared with destructiveHint = false never sends a DELETE
\* request, and a tool declared with readOnlyHint = true never sends a PUT,
\* a DELETE, or a POST to an endpoint that modifies a library.
C39_HintsBoundRequests ==
    Calling =>
        LET tool_name == as_str(tool_in.name).v
        IN /\ ~annotations(tool_name).destructiveHint => tool_out.method # "delete"
           /\ annotations(tool_name).readOnlyHint =>
                  /\ tool_out.method \notin {"put_json", "delete"}
                  /\ tool_out.method \in {"post_json", "post_text"}
                         => ~LibraryEndpoint(tool_name)

\* The part about the tools declared read-only.
ReadOnlyToolsOnlyRead ==
    (Calling /\ annotations(as_str(tool_in.name).v).readOnlyHint) =>
        /\ tool_out.method \in {"get", "post_json", "post_text"}
        /\ ~LibraryEndpoint(as_str(tool_in.name).v)

\* scix_library, declared not destructive, sends the DELETE of a library.
DeleteByNonDestructiveTool ==
    /\ Calling
    /\ as_str(tool_in.name).v = "scix_library"
    /\ as_str(tool_in.arguments.action).v = "delete"
    /\ ~annotations("scix_library").destructiveHint
    /\ tool_out.method = "delete"

\* C40: on one limiter, whatever the interleaving of acquire() and
\* update_from_headers() calls, last_request once set stays set and never
\* moves back, and server_remaining and server_reset once set stay set.
C40_QuotaStateNeverReset ==
    [][/\ last_request # None => last_request' # None /\ last_request' >= last_request
       /\ server_remaining # None => server_remaining' # None
       /\ server_reset # None => server_reset' # None]_vars

\* All three fields are set, the window the server announced has ended and
\* a later caller is inside acquire(): the limiter still holds what it was
\* told.
C40_Witness ==
    /\ last_request # None
    /\ last_request < now
    /\ server_remaining # None
    /\ server_reset # None
    /\ server_reset < now
    /\ \E t \in Tasks : calls[t] >= 1 /\ pc[t] # "idle"

====
